---- MODULE Spec2Model ----
(***************************************************************************)
(* OpenSecAgent: the detection-and-response pipeline as a state machine.   *)
(*                                                                         *)
(*   - the LLM agent loop with its command whitelist   (llm_agent.py)      *)
(*   - the event processor's per-event pipeline        (daemon.py)         *)
(*   - the diff detectors                              (detector/*.py)     *)
(*   - the collector / detector / processor tasks      (daemon.py)         *)
(*                                                                         *)
(* Strings that the code inspects character by character (the commands a   *)
(* model response suggests) are sequences of one-character strings, so     *)
(* that strip() and the whitelist regexes are computed, not assumed.       *)
(***************************************************************************)
EXTENDS Integers, Sequences, FiniteSets, TLC

\* ---------------------------------------------------------------- bounds

\* largest value drawn for LLMAgent._max_iterations
MaxIterations == 3
\* events the detector and drift tasks enqueue in one behaviour
MaxEvents == 1
\* collector runs in one behaviour
MaxCollects == 2
\* detector cycles in one behaviour
MaxCycles == 2
\* longest inventory list handed to a single detector call
MaxInvLen == 2
\* longest list of maintenance windows configured
MaxWindows == 2
\* calls that fail in one behaviour
MaxFaults == 1
\* steps of the drift monitor and of its environment in one behaviour
MaxDriftSteps == 4
\* daemon processes started one after the other on the same log files
MaxStarts == 2
\* records logged to the sinks in one behaviour
MaxWrites == 2
\* events of an incident handed to event_type_matches
MaxIncEvents == 2
\* events classified one after the other by one DetectorManager
MaxClassified == 2
\* container ids in raw.new_ids of a new_container event
MaxNewIds == 6
\* calls of report_incident on one ReporterManager
MaxReports == 2
\* days the digest task runs
MaxDigestDays == 2
\* incidents reported while the digest task runs
MaxDigestReports == 2
\* periodic scan cycles in one behaviour
\* iterations of the collector loop that are followed
MaxLoops == 21

\* calls of the threat registry that are followed
MaxRegistryOps == 2

MaxScans == 2

\* ------------------------------------------------------------------ state

VARIABLES
  config,           \* the loaded configuration (the keys the modelled code reads)
  event_queue,      \* Daemon._event_queue
  n_events,         \* events enqueued so far
  pe_pc,            \* where _process_event is: "get" = awaiting the queue
  incident,         \* the incident _process_event is handling
  allowed,          \* its allowed actions
  act_idx,          \* next allowed action to hand to the responder
  audit,            \* the audit sink's lines
  activity,         \* the activity sink's lines
  pending_digest,   \* ReporterManager._pending_digest
  notifications,    \* what the email reporter was asked to send
  threats,          \* the threat registry: threat_id i is threats[i]
  threat_id,        \* the threat stored for the incident being handled
  n_incidents,      \* incidents created so far (incident ids)
  agent_pc,         \* run_agent_loop: "idle", "loop" (awaiting the model), "returned"
  caller,           \* who called run_agent_loop: "incident" or "cli"
  mode,             \* its mode argument
  iteration, total_commands, actions_taken, finding,   \* its locals
  result,           \* its return value
  llm_calls,        \* _call_llm invocations of this run_agent_loop call
  executed,         \* commands passed to _execute_command by this call
  hist,             \* one entry per iteration of this call
  threat_reads,     \* load_threats_for_context invocations of this call
  cli_pc            \* the "opensecagent agent" process: "start", "running", "exited"

agentVars == <<agent_pc, caller, mode, iteration, total_commands, actions_taken,
               finding, result, llm_calls, executed, hist, threat_reads, cli_pc>>
pipeVars  == <<pe_pc, incident, allowed, act_idx, audit, pending_digest,
               notifications, threats, threat_id, n_incidents>>


VARIABLES
  d_last_host_inv, d_last_docker_inv,   \* Daemon._last_host_inv, _last_docker_inv
  last_host_inv, last_docker_inv,       \* DetectorManager._last_host_inv, _last_docker_inv
  last_ports, last_containers, last_sudo_users,  \* DetectorManager's stored sets
  det_task_pc,      \* _run_detectors: "run" (about to run a cycle) or "put"
  det_events,       \* what run_detectors returned, not yet enqueued
  det_cycles,       \* detector cycles run so far
  n_collects,       \* collector runs so far
  last_enq_host, last_enq_docker,   \* the inventory of the last inventory event enqueued
  prev_ports, prev_containers, prev_sudo_users,  \* the sets as the last cycle stored them
  check_which, check_inv, check_prior, check_out, check_pc  \* one detector call on its own

mgrVars    == <<last_host_inv, last_docker_inv, last_ports, last_containers, last_sudo_users>>
daemonVars == <<d_last_host_inv, d_last_docker_inv, det_task_pc, det_events, det_cycles,
                n_collects, last_enq_host, last_enq_docker,
                prev_ports, prev_containers, prev_sudo_users>>
checkVars  == <<check_which, check_inv, check_prior, check_out, check_pc>>

VARIABLES
  pol_windows,      \* PolicyEngine._maintenance_windows
  pol_tier,         \* the configured action_tier_max
  pol_inc,          \* the incident handed to allowed_actions
  pol_out,          \* what allowed_actions returned
  pol_pc,           \* one allowed_actions call on its own: "off", "ready", "done"
  fs,               \* the critical files: path -> content, "absent" or "unreadable"
  baseline_mem,     \* DriftMonitor._baseline
  baseline_file,    \* drift_baseline.json: whether it exists, and its content
  drift_out,        \* what the last DriftMonitor.check returned
  n_checks,         \* calls of DriftMonitor.check so far
  n_drift_steps,    \* file changes, restarts, deletions and checks so far
  pe_errors,        \* exceptions the event processor has caught
  det_produced,     \* events the detectors of an aborted cycle had produced
  task_state,       \* the daemon's tasks: "running" or "ended"
  n_faults,         \* failures injected so far
  scan_pc,          \* _run_periodic_agent: "sleep", "loop", "alert"
  n_scans,          \* periodic cycles started so far
  scan_threat_id,   \* the threat_id local to the periodic cycle
  reports,          \* the threat ids for which vuln-<threat_id>.pdf was written
  scan_log,         \* the calls a periodic cycle made after its loop, in order
  sh_pc,            \* main(): "down", "run", the step of Daemon.cleanup, "stopped", "escaped"
  cl_tasks,         \* Daemon._tasks: "running", "failed" or "cancelled"
  cl_idx,           \* the position of cleanup's for loop in Daemon._tasks
  sinks,            \* the audit and the activity sink: file on disk, buffer, lock, open
  reporter_up,      \* the reporter between start() and cleanup()
  n_writes,         \* records logged so far
  n_starts,         \* daemon processes started so far
  pf_call,          \* a function of models.py called on its own: name and arguments
  pf_ret,           \* <<>> until the call returns, then <<what it returned>>
  dg_pc,            \* _run_digest_loop: "sleep60", "send", "sleep3600"
  dg_now,           \* the UTC clock, in minutes since 00:00 of day 0
  dg_cfg,           \* notifications.digest
  dg_copy,          \* the local copy of a flush
  dg_sent,          \* the calls of send_daily_digest: when, and with which incidents
  n_reported,       \* incidents reported to the ReporterManager so far
  co_pc,            \* _run_collectors: "host", "docker", "sleep"
  co_now,           \* seconds since the collector task started
  co_ival,          \* the intervals the task read: host_ival and docker_ival
  host_t,           \* the local host_t
  docker_t,         \* the local docker_t
  co_runs,          \* per collector, the times at which it was run
  n_loops,          \* iterations of the collector loop started so far
  tr_dir,           \* the threats directory: whether it exists, and its files
  tr_call,          \* the last call of the threat registry, with the directory before it
  tr_ret,           \* what that call returned
  n_tr_ops          \* calls of the threat registry so far

policyVars == <<pol_windows, pol_tier, pol_inc, pol_out, pol_pc>>
driftVars  == <<fs, baseline_mem, baseline_file, drift_out, n_checks, n_drift_steps>>
faultVars  == <<pe_errors, det_produced, task_state, n_faults>>
scanVars   == <<scan_pc, n_scans, scan_threat_id, reports, scan_log>>
shutVars   == <<sh_pc, cl_tasks, cl_idx, sinks, reporter_up, n_writes, n_starts>>
pureVars   == <<pf_call, pf_ret>>
digestVars == <<dg_pc, dg_now, dg_cfg, dg_copy, dg_sent, n_reported>>
collVars   == <<co_pc, co_now, co_ival, host_t, docker_t, co_runs, n_loops>>
regVars    == <<tr_dir, tr_call, tr_ret, n_tr_ops>>
lateVars   == <<collVars, regVars>>
tailVars   == <<digestVars, lateVars>>
moreVars   == <<scanVars, shutVars, pureVars, tailVars>>
auxVars    == <<policyVars, driftVars, faultVars, moreVars>>

vars == <<config, event_queue, n_events, activity, agentVars, pipeVars,
          mgrVars, daemonVars, checkVars, auxVars>>

\* ------------------------------------------------- llm_agent.py: whitelist

\* Python's str.isspace() characters that occur in the modelled commands.
Whitespace == {" ", "\t", "\n"}

\* re.I: the characters of the modelled commands that have a lower-case form.
ToLower(c) ==
  CASE c = "S" -> "s"
    [] c = "L" -> "l"
    [] c = "I" -> "i"
    [] OTHER -> c

\* The whitelist, one tuple per (pattern, allow_shell) entry; every entry is
\* anchored with ^.  Elements: a literal character (lower-cased, the match is
\* case-insensitive), "WS" for \s+, "CLS_lL" for [lL], "END" for $.
ALLOWED_COMMANDS ==
  <<
     <<"a", "p", "t", "WS", "l", "i", "s", "t", "WS">>,  \* ^apt\s+list\s+
     <<"a", "p", "t", "-", "c", "a", "c", "h", "e", "WS">>,  \* ^apt-cache\s+
     <<"d", "p", "k", "g", "WS", "-", "CLS_lL">>,  \* ^dpkg\s+-[lL]
     <<"r", "p", "m", "WS", "-", "q", "a">>,  \* ^rpm\s+-qa
     <<"s", "s", "WS", "-">>,  \* ^ss\s+-
     <<"n", "e", "t", "s", "t", "a", "t", "WS", "-">>,  \* ^netstat\s+-
     <<"d", "o", "c", "k", "e", "r", "WS", "p", "s">>,  \* ^docker\s+ps
     <<"d", "o", "c", "k", "e", "r", "WS", "i", "m", "a", "g", "e", "s">>,  \* ^docker\s+images
     <<"d", "o", "c", "k", "e", "r", "WS", "i", "n", "s", "p", "e", "c", "t", "WS">>,  \* ^docker\s+inspect\s+
     <<"c", "a", "t", "WS", "/", "e", "t", "c", "/">>,  \* ^cat\s+/etc/
     <<"l", "s", "WS", "-", "l", "a", "WS", "/", "e", "t", "c", "/">>,  \* ^ls\s+-la\s+/etc/
     <<"g", "e", "t", "e", "n", "t", "WS">>,  \* ^getent\s+
     <<"s", "y", "s", "t", "e", "m", "c", "t", "l", "WS", "l", "i", "s", "t", "-", "u", "n", "i", "t", "s">>,  \* ^systemctl\s+list-units
     <<"s", "y", "s", "t", "e", "m", "c", "t", "l", "WS", "s", "t", "a", "t", "u", "s", "WS">>,  \* ^systemctl\s+status\s+
     <<"i", "d", "WS">>,  \* ^id\s+
     <<"w", "h", "o", "a", "m", "i", "END">>,  \* ^whoami$
     <<"u", "n", "a", "m", "e", "WS", "-", "a", "END">>,  \* ^uname\s+-a$
     <<"h", "o", "s", "t", "n", "a", "m", "e", "END">>,  \* ^hostname$
     <<"a", "p", "t", "WS", "i", "n", "s", "t", "a", "l", "l", "WS", "-", "y", "WS">>,  \* ^apt\s+install\s+-y\s+
     <<"a", "p", "t", "WS", "u", "p", "g", "r", "a", "d", "e", "WS", "-", "y", "END">>,  \* ^apt\s+upgrade\s+-y$
     <<"a", "p", "t", "-", "g", "e", "t", "WS", "i", "n", "s", "t", "a", "l", "l", "WS", "-", "y", "WS">>,  \* ^apt-get\s+install\s+-y\s+
     <<"a", "p", "t", "-", "g", "e", "t", "WS", "u", "p", "g", "r", "a", "d", "e", "WS", "-", "y", "END">>,  \* ^apt-get\s+upgrade\s+-y$
     <<"d", "o", "c", "k", "e", "r", "WS", "s", "t", "o", "p", "WS">>,  \* ^docker\s+stop\s+
     <<"d", "o", "c", "k", "e", "r", "WS", "r", "m", "WS", "-", "f", "WS">>,  \* ^docker\s+rm\s+-f\s+
     <<"u", "f", "w", "WS", "d", "e", "n", "y", "WS">>,  \* ^ufw\s+deny\s+
     <<"i", "p", "t", "a", "b", "l", "e", "s", "WS", "-", "i", "WS", "i", "n", "p", "u", "t", "WS">>  \* ^iptables\s+-I\s+INPUT\s+
  >>

\* allow_shell, the second component of every ALLOWED_COMMANDS entry.
allow_shell == [i \in 1..Len(ALLOWED_COMMANDS) |-> FALSE]

RECURSIVE MatchAt(_, _, _, _)
\* re.search(pattern, cmd, re.I) for an anchored pattern: does pat[i..] match
\* s from position j?  \s+ takes one or more whitespace characters; $ matches
\* at the end of the string or just before a final newline.
MatchAt(pat, i, s, j) ==
  IF i > Len(pat) THEN TRUE
  ELSE IF pat[i] = "END"
    THEN (j = Len(s) + 1 \/ (j = Len(s) /\ s[j] = "\n")) /\ MatchAt(pat, i + 1, s, Len(s) + 1)
  ELSE IF pat[i] = "WS"
    THEN \E k \in 1..(Len(s) - j + 1) :
           /\ \A m \in j..(j + k - 1) : s[m] \in Whitespace
           /\ MatchAt(pat, i + 1, s, j + k)
  ELSE IF pat[i] = "CLS_lL"
    THEN j <= Len(s) /\ s[j] \in {"l", "L"} /\ MatchAt(pat, i + 1, s, j + 1)
  ELSE j <= Len(s) /\ ToLower(s[j]) = pat[i] /\ MatchAt(pat, i + 1, s, j + 1)

RECURSIVE LStrip(_)
LStrip(s) == IF s # <<>> /\ Head(s) \in Whitespace THEN LStrip(Tail(s)) ELSE s

RECURSIVE RStrip(_)
RStrip(s) ==
  IF s # <<>> /\ s[Len(s)] \in Whitespace THEN RStrip(SubSeq(s, 1, Len(s) - 1)) ELSE s

\* str.strip()
Strip(s) == RStrip(LStrip(s))

\* is_command_allowed
is_command_allowed(cmd) ==
  LET c == Strip(cmd) IN
  IF c = <<>> \/ Head(c) = "#" THEN FALSE
  ELSE \E p \in 1..Len(ALLOWED_COMMANDS) : MatchAt(ALLOWED_COMMANDS[p], 1, c, 1)

\* The command strings the modelled responses suggest.
CmdSs == <<"s", "s", " ", "-", "t", "l", "n">>  \* 'ss -tln'
CmdRm == <<"r", "m", " ", "-", "r", "f", " ", "/">>  \* 'rm -rf /'
CmdWhoamiPadded == <<" ", "w", "h", "o", "a", "m", "i", " ">>  \* ' whoami '
CmdWhoamiX == <<"w", "h", "o", "a", "m", "i", " ", "x">>  \* 'whoami x'
CmdComment == <<"#", " ", "s", "s", " ", "-", "t", "l", "n">>  \* '# ss -tln'
CmdDockerStop == <<"d", "o", "c", "k", "e", "r", " ", "s", "t", "o", "p", " ", "c", "1">>  \* 'docker stop c1'
CmdSsUpper == <<"S", "S", " ", "-", "t", "l", "n">>  \* 'SS -tln'
CmdChained == <<"s", "s", " ", "-", "t", "l", "n", ";", " ", "r", "m", " ", "-", "r", "f", " ", "/">>  \* 'ss -tln; rm -rf /'
CmdBlank == <<" ">>  \* ' '
CmdEmpty == <<>>  \* ''
CmdWhoami == <<"w", "h", "o", "a", "m", "i">>  \* 'whoami'
CmdSsNoArg == <<"s", "s">>  \* 'ss'

\* ------------------------------------------ llm_agent.py: response parsing

NoFinding == "none"
\* the finding object {}: a dict, and falsy
EmptyFinding == "{}"
\* 'if parsed_finding:' and 'if finding:'
FindingTruthy(f) == f \notin {NoFinding, EmptyFinding}

\* A model response, as far as parse_llm_commands reads it:
\*   json      a {...} object was found in the text and json.loads accepted it
\*   commands  the cmd strings of data["commands"] (a list)
\*   done, vulnerability_found, finding   the keys of that object
\*             (finding = NoFinding: the key is missing or is no object)
\*   md        the lines inside the ``` fenced blocks of the text
Response(j, cs, d, vf, f, m) ==
  [json |-> j, commands |-> cs, done |-> d, vulnerability_found |-> vf,
   finding |-> f, md |-> m]

\* S5 of the design: one rejected and one accepted command, done.
RespRejectThenSs == Response(TRUE, <<CmdRm, CmdSs>>, TRUE, FALSE, NoFinding, <<>>)
\* never done, always executable
RespKeepGoing == Response(TRUE, <<CmdSs, CmdRm, CmdDockerStop>>, FALSE, FALSE, NoFinding, <<>>)
\* nothing whitelisted
RespOnlyRejected == Response(TRUE, <<CmdRm, CmdWhoamiX, CmdComment, CmdEmpty, CmdBlank>>, FALSE, FALSE, NoFinding, <<>>)
\* S6 of the design: no commands, a finding
RespFinding == Response(TRUE, <<>>, TRUE, TRUE, "F1", <<>>)
\* padded and upper-case commands, a finding, not done
RespPaddedFinding == Response(TRUE, <<CmdWhoamiPadded, CmdSsUpper>>, FALSE, TRUE, "F2", <<>>)
\* no JSON: the fenced-block fallback
RespMarkdown == Response(FALSE, <<>>, FALSE, FALSE, NoFinding, <<CmdComment, CmdWhoamiPadded, CmdEmpty, CmdRm>>)
\* a chained command line that starts like a whitelisted one, done
RespChained == Response(TRUE, <<CmdChained>>, TRUE, FALSE, NoFinding, <<>>)

\* vulnerability_found with an empty finding object, done
RespEmptyFinding == Response(TRUE, <<>>, TRUE, TRUE, EmptyFinding, <<>>)

Responses ==
  {RespRejectThenSs, RespKeepGoing, RespOnlyRejected, RespFinding,
   RespPaddedFinding, RespMarkdown, RespChained}

RECURSIVE MarkdownCommands(_)
\* the fallback loop over the lines of the fenced blocks
MarkdownCommands(lines) ==
  IF lines = <<>> THEN <<>>
  ELSE LET line == Strip(Head(lines)) IN
       IF line # <<>> /\ Head(line) # "#"
         THEN <<line>> \o MarkdownCommands(Tail(lines))
         ELSE MarkdownCommands(Tail(lines))

\* parse_llm_commands: (commands, done, finding)
parse_llm_commands(r) ==
  LET commands == IF r.json THEN r.commands ELSE <<>>
      done     == r.json /\ r.done
      parsed_finding == IF r.json /\ r.vulnerability_found /\ r.finding # NoFinding
                          THEN r.finding ELSE NoFinding
  IN [commands |-> IF commands = <<>> THEN MarkdownCommands(r.md) ELSE commands,
      done     |-> done,
      finding  |-> parsed_finding]

\* ------------------------------------------------------ policy_engine.py

Severities == {"P1", "P2", "P3", "P4"}

\* the test of event_type_matches on the first event only
event_type_matches_first(inc, typ) ==
  inc.events # <<>> /\ inc.events[1].event_type = typ

\* Severity(value): the member with that value, ValueError for any other
SeverityValues == <<"P1", "P2", "P3", "P4">>

Severity(value) ==
  IF \E i \in 1..Len(SeverityValues) : SeverityValues[i] = value THEN value ELSE "ValueError"

\* severity_from_str without its membership test
severity_from_str_unguarded(s) == Severity(s)

\* severity_from_str
severity_from_str(s) ==
  IF s \in {SeverityValues[i] : i \in 1..Len(SeverityValues)} THEN Severity(s) ELSE Severity("P4")

\* Incident.event_type_matches
event_type_matches(inc, typ) == typ \in {inc.events[i].event_type : i \in 1..Len(inc.events)}

ActionSpec(a, r, t, m) == [action |-> a, reason |-> r, tier |-> t, timeout_minutes |-> m]

\* allowed_actions with the severity test of both containment rules dropped
allowed_actions_any_severity(cfg, inc) ==
  IF cfg.in_maintenance_window
    THEN <<ActionSpec("alert_only", "maintenance_window", 0, 0)>>
    ELSE <<ActionSpec("alert_only", "always", 0, 0)>>
         \o (IF cfg.action_tier_max >= 1 /\ event_type_matches(inc, "new_container")
               THEN <<ActionSpec("stop_container", "", 1, 60)>> ELSE <<>>)
         \o (IF cfg.action_tier_max >= 1 /\ event_type_matches(inc, "auth_failures")
               THEN <<ActionSpec("block_ip_temporary", "", 1, 30)>> ELSE <<>>)

\* PolicyEngine.allowed_actions
allowed_actions(cfg, inc) ==
  IF cfg.in_maintenance_window
    THEN <<ActionSpec("alert_only", "maintenance_window", 0, 0)>>
    ELSE <<ActionSpec("alert_only", "always", 0, 0)>>
         \o (IF cfg.action_tier_max >= 1 /\ inc.severity \in {"P1", "P2"}
                  /\ event_type_matches(inc, "new_container")
               THEN <<ActionSpec("stop_container", "", 1, 60)>> ELSE <<>>)
         \o (IF cfg.action_tier_max >= 1 /\ inc.severity \in {"P1", "P2"}
                  /\ event_type_matches(inc, "auth_failures")
               THEN <<ActionSpec("block_ip_temporary", "", 1, 30)>> ELSE <<>>)

\* Instants are points of a small time line; datetime.utcnow() is UtcNow,
\* so that windows before, around, at and after the present all occur.
Times == 0..2
UtcNow == 1

\* A configured window {start, end}.  form is what dateutil's parse makes of
\* the two strings: "naive" for a text without zone ("2026-01-01T10:00:00"),
\* "utc" for an ISO-8601 UTC instant, that is a text with the designator Z
\* or the offset +00:00, which parses to a timezone-aware datetime; "absent"
\* when start or end is missing or empty.
Window(s, e, f) == [start |-> s, end |-> e, form |-> f]

\* the instant interval of a window holds the present
WindowHolds(w, now) == w.form # "absent" /\ w.start <= now /\ now <= w.end

\* s <= now <= e of _in_maintenance_window: "raises" is the TypeError of
\* comparing an aware datetime with the naive utcnow()
WindowCompare(w, now) ==
  IF w.form = "utc" THEN "raises"
  ELSE IF w.start <= now /\ now <= w.end THEN "true" ELSE "false"

RECURSIVE in_maintenance_window(_, _)
\* PolicyEngine._in_maintenance_window: the first window that compares true
\* returns True; a window without start or end is skipped, and an exception
\* in a window's try body is swallowed (except Exception: pass)
in_maintenance_window(windows, now) ==
  IF windows = <<>> THEN FALSE
  ELSE LET w == Head(windows) IN
       IF w.form # "absent" /\ WindowCompare(w, now) = "true" THEN TRUE
       ELSE in_maintenance_window(Tail(windows), now)

\* ------------------------------------- llm_agent.py: _execute_command

RECURSIVE FirstWord(_)
\* the first word of a command line: the program it names
FirstWord(s) ==
  LET t == LStrip(s) IN
  IF t = <<>> \/ Head(t) \in Whitespace \cup {";"} THEN <<>>
  ELSE <<Head(t)>> \o (IF Len(t) = 1 \/ t[2] \in Whitespace \cup {";"}
                         THEN <<>> ELSE FirstWord(Tail(t)))

RECURSIVE ShellList(_)
\* /bin/sh -c on a command line: the simple commands of its ';' list
ShellList(s) ==
  LET Cut[i \in 1..(Len(s) + 1)] ==
        IF i > Len(s) \/ s[i] = ";" THEN i ELSE Cut[i + 1]
      k == IF s = <<>> THEN 1 ELSE Cut[1]
      first == SubSeq(s, 1, k - 1)
      rest  == IF k >= Len(s) THEN <<>> ELSE ShellList(SubSeq(s, k + 1, Len(s)))
  IN (IF Strip(first) = <<>> THEN <<>> ELSE <<Strip(first)>>) \o rest

\* asyncio.create_subprocess_shell(run_cmd): the programs the shell starts
create_subprocess_shell(run_cmd) ==
  [i \in 1..Len(ShellList(run_cmd)) |-> FirstWord(ShellList(run_cmd)[i])]

\* _execute_command(cmd) with execution.run_as unset: the programs started
LLMAgent_execute_command(cmd) == create_subprocess_shell(cmd)

\* ------------------------------------------------- sinks: the lines written

AuditRec(t, id, a) == [type |-> t, incident_id |-> id, action |-> a]
ActRec(t, ok, c, ns) == [type |-> t, ok |-> ok, cmd |-> c, nums |-> ns]

RECURSIVE CommandExecutions(_)
\* the command_execution lines _execute_command writes, one per command run
CommandExecutions(cmds) ==
  IF cmds = <<>> THEN <<>>
  ELSE <<ActRec("command_execution", TRUE, Head(cmds), <<>>)>> \o CommandExecutions(Tail(cmds))

\* -------------------------------------------- detector/manager.py: events

Event(t, src, sev, raw) == [event_type |-> t, source |-> src, severity |-> sev, raw |-> raw]

EvAuth       == Event("auth_failures", "detector.auth", "P2", {})
EvNpm        == Event("npm_audit_vulnerabilities", "detector.npm_audit", "P1", {})
EvHighNet    == Event("high_network_usage", "detector.network", "P3", {})
ProbeEvents  == {EvAuth, EvNpm, EvHighNet}

NoIncident == [incident_id |-> 0]

IsInventory(e) ==
  /\ e.source \in {"host_collector", "docker_collector"}
  /\ e.event_type \in {"host_inventory", "docker_inventory"}

\* DetectorManager.correlate_and_classify, for an event that is no inventory
Classify(e, id) ==
  [incident_id |-> id, severity |-> e.severity, events |-> <<e>>,
   actions_taken |-> <<>>, llm_summary |-> ""]


\* -------------------------------------------------- inventories (collector/)

\* Daemon and DetectorManager start with {} for both inventories.
EmptyInv == [kind |-> "empty"]

HostInv(ports, sudo) == [kind |-> "host", listening_ports |-> ports, users_with_sudo |-> sudo]
DockerInv(avail, cs) == [kind |-> "docker", available |-> avail, containers |-> cs]
Container(id, st) == [id |-> id, status |-> st]

Range(s) == {s[i] : i \in DOMAIN s}

\* {str(p.get("port", ...)) for p in inv.get("listening_ports", [])}
PortSet(inv) == IF inv.kind = "host" THEN Range(inv.listening_ports) ELSE {}
\* set(inv.get("users_with_sudo", []))
SudoSet(inv) == IF inv.kind = "host" THEN Range(inv.users_with_sudo) ELSE {}
\* {c.get("id", "") for c in inv.get("containers", [])}
ContainerIds(inv) == IF inv.kind = "docker" THEN {c.id : c \in Range(inv.containers)} ELSE {}
\* the ids of the containers whose status is "running"
RunningIds(inv) ==
  IF inv.kind = "docker" THEN {c.id : c \in {d \in Range(inv.containers) : d.status = "running"}} ELSE {}
\* inv.get("available")
Available(inv) == inv.kind = "docker" /\ inv.available

\* Normalizer.host_inventory_to_events / docker_inventory_to_events
host_inventory_to_events(inv) == <<Event("host_inventory", "host_collector", "P4", inv)>>
docker_inventory_to_events(inv) ==
  IF ~Available(inv) THEN <<>>
  ELSE <<Event("docker_inventory", "docker_collector", "P4", inv)>>

\* ------------------------------------------------ detector/: diff detectors

NoEvent == [event_type |-> "none"]

\* NewPortDetector.check with the empty-prior test left out (a plausible slip)
NewPortDetector_check_no_bootstrap(host_inv, prior) ==
  LET current   == PortSet(host_inv)
      new_ports == current \ prior
  IN IF new_ports # {}
       THEN Event("new_listening_port", "detector.ports", "P3",
                  [new_ports |-> new_ports, current_ports |-> current])
       ELSE NoEvent

\* NewPortDetector.check
NewPortDetector_check(host_inv, prior) ==
  LET current   == PortSet(host_inv)
      new_ports == current \ prior
  IN IF prior = {} THEN NoEvent
     ELSE IF new_ports # {}
       THEN Event("new_listening_port", "detector.ports", "P3",
                  [new_ports |-> new_ports, current_ports |-> current])
       ELSE NoEvent

\* NewContainerDetector.check
NewContainerDetector_check(docker_inv, prior) ==
  IF ~Available(docker_inv) THEN NoEvent
  ELSE LET running_now == RunningIds(docker_inv)
           new_running == running_now \ prior
       IN IF prior = {} THEN NoEvent
          ELSE IF new_running # {}
            THEN Event("new_container", "detector.containers", "P3",
                       [new_ids |-> new_running,
                        names   |-> LET sel == SelectSeq(docker_inv.containers,
                                                         LAMBDA c : c.id \in new_running)
                                    IN [i \in 1..Len(sel) |-> sel[i].id]])
            ELSE NoEvent

\* NewAdminUserDetector.check reporting every current user (a plausible slip)
NewAdminUserDetector_check_all_current(host_inv, prior) ==
  LET current == SudoSet(host_inv)
  IN IF prior = {} THEN NoEvent
     ELSE IF current # {}
       THEN Event("new_admin_user", "detector.users", "P2",
                  [new_users |-> current, current_sudo |-> current])
       ELSE NoEvent

\* NewAdminUserDetector.check
NewAdminUserDetector_check(host_inv, prior) ==
  LET current    == SudoSet(host_inv)
      new_admins == current \ prior
  IN IF prior = {} THEN NoEvent
     ELSE IF new_admins # {}
       THEN Event("new_admin_user", "detector.users", "P2",
                  [new_users |-> new_admins, current_sudo |-> current])
       ELSE NoEvent

\* ----------------------------------------------------- llm_agent.py: loop

\* self._enabled with the flags' default taken as true (a plausible slip)
LLMAgent_enabled_default_true(cfg) == TRUE

\* LLMAgent.__init__: self._enabled
LLMAgent_enabled(cfg) == cfg.llm_agent_enabled \/ cfg.llm_enabled

NoResult == [summary |-> "none"]

DisabledResult ==
  [summary |-> "LLM agent disabled", iterations |-> 0, commands_executed |-> 0,
   finding |-> NoFinding, has_actions_taken |-> FALSE, actions_taken |-> <<>>]

\* the dict run_agent_loop builds after the loop; "finding" and
\* "actions_taken" are keys only when truthy
Out(it, total, f, acts) ==
  [summary |-> "Agent completed", iterations |-> it, commands_executed |-> total,
   finding |-> f, has_actions_taken |-> (acts # <<>>), actions_taken |-> acts]

\* the for-loop's test of one suggested command, with the check left out
ShouldExecuteUnchecked(c) == Strip(c) # <<>>

\* the for-loop's test with remediation left to the resolve loop
ShouldExecuteResolveOnly(c) ==
  mode = "resolve" /\ Strip(c) # <<>> /\ is_command_allowed(Strip(c))

\* the for-loop's test of one suggested command: run it or skip it
ShouldExecute(c) == Strip(c) # <<>> /\ is_command_allowed(Strip(c))

RECURSIVE ExecLoopBreakOnReject(_)
\* the for-loop with "break" where the code has "continue" (a plausible slip)
ExecLoopBreakOnReject(commands) ==
  IF commands = <<>> THEN <<>>
  ELSE IF ShouldExecute(Head(commands))
    THEN <<Strip(Head(commands))>> \o ExecLoopBreakOnReject(Tail(commands))
    ELSE <<>>

RECURSIVE ExecLoop(_)
\* the for-loop over one response's commands: the commands it passes to
\* _execute_command, in order
ExecLoop(commands) ==
  IF commands = <<>> THEN <<>>
  ELSE IF ShouldExecute(Head(commands))
    THEN <<Strip(Head(commands))>> \o ExecLoop(Tail(commands))
    ELSE ExecLoop(Tail(commands))

\* the loop's exit test with the done flag ignored (a plausible slip)
LoopBreaksIgnoringDone(done, n_executed) == n_executed = 0

\* "if done or executed == 0: break"
LoopBreaks(done, n_executed) == done \/ n_executed = 0

\* the while condition with an off-by-one (a plausible slip)
LoopContinuesOffByOne(it) == it <= config.max_iterations

\* "while iteration < self._max_iterations"
LoopContinues(it) == it < config.max_iterations

\* run_agent_loop up to its first await: the gate, the threat context, the
\* first test of the while condition
run_agent_loop_enter(m, who) ==
  /\ caller' = who
  /\ mode' = m
  /\ iteration' = 0
  /\ total_commands' = 0
  /\ actions_taken' = <<>>
  /\ finding' = NoFinding
  /\ llm_calls' = 0
  /\ executed' = <<>>
  /\ hist' = <<>>
  /\ IF ~LLMAgent_enabled(config) \/ ~config.api_key
       THEN /\ agent_pc' = "returned"
            /\ result' = DisabledResult
            /\ threat_reads' = 0
       ELSE /\ threat_reads' = 1
            /\ IF LoopContinues(0)
                 THEN agent_pc' = "loop" /\ result' = NoResult
                 ELSE agent_pc' = "returned" /\ result' = Out(0, 0, NoFinding, <<>>)

\* the break after a failed model call, replaced by a retry (a plausible slip)
AfterCallFailRetry(it) ==
  IF LoopContinues(it)
    THEN agent_pc' = "loop" /\ result' = NoResult
    ELSE agent_pc' = "returned" /\ result' = Out(it, total_commands, finding, actions_taken)

\* the break after a failed model call
AfterCallFail(it) ==
  /\ agent_pc' = "returned"
  /\ result' = Out(it, total_commands, finding, actions_taken)

\* one iteration whose model call raises
AgentCallFail ==
  /\ agent_pc = "loop"
  /\ iteration' = iteration + 1
  /\ llm_calls' = llm_calls + 1
  /\ activity' = Append(activity, ActRec("llm_call", FALSE, <<>>, <<>>))
  /\ hist' = Append(hist, [ok |-> FALSE, response |-> NoResult, executed |-> <<>>])
  /\ AfterCallFail(iteration + 1)
  /\ UNCHANGED <<caller, mode, total_commands, actions_taken, finding, executed, threat_reads, cli_pc>>
  /\ UNCHANGED <<config, event_queue, n_events>>
  /\ UNCHANGED <<pipeVars, mgrVars, daemonVars, checkVars, auxVars>>

\* what an iteration makes of each modelled response: parse_llm_commands,
\* then the for-loop over the parsed commands
Handled ==
  [r \in Responses \cup {RespEmptyFinding} |->
     LET p == parse_llm_commands(r) IN [parsed |-> p, run |-> ExecLoop(p.commands)]]

\* one iteration whose model call returns r: parse, run the whitelisted
\* commands, log, test the exit conditions
AgentIteration(r) ==
  /\ agent_pc = "loop"
  /\ LET p    == Handled[r].parsed
         run  == Handled[r].run
         it   == iteration + 1
         f    == IF FindingTruthy(p.finding) THEN p.finding ELSE finding
         acts == actions_taken \o run
     IN /\ iteration' = it
        /\ llm_calls' = llm_calls + 1
        /\ finding' = f
        /\ total_commands' = total_commands + Len(run)
        /\ actions_taken' = acts
        /\ executed' = executed \o run
        /\ activity' = activity
                       \o <<ActRec("llm_call", TRUE, <<>>, <<>>)>>
                       \o CommandExecutions(run)
                       \o <<ActRec("agent_iteration", p.done, <<>>, <<it, Len(p.commands), Len(run)>>)>>
        /\ hist' = Append(hist, [ok |-> TRUE, response |-> r, executed |-> run])
        /\ IF LoopBreaks(p.done, Len(run)) \/ ~LoopContinues(it)
             THEN /\ agent_pc' = "returned"
                  /\ result' = Out(it, total_commands + Len(run), f, acts)
             ELSE /\ agent_pc' = "loop"
                  /\ result' = NoResult
  /\ UNCHANGED <<caller, mode, threat_reads, cli_pc>>
  /\ UNCHANGED <<config, event_queue, n_events>>
  /\ UNCHANGED <<pipeVars, mgrVars, daemonVars, checkVars, auxVars>>

\* ------------------------------------------------------------ responder.py

RECURSIVE SetToSeq(_)
\* list(a_set): some enumeration of the set
SetToSeq(S) == IF S = {} THEN <<>> ELSE LET x == CHOOSE y \in S : TRUE IN <<x>> \o SetToSeq(S \ {x})

\* _stop_containers looping over new_ids instead of new_ids[:5]
StopIdsNoLimit(spec, inc) ==
  IF spec.action = "stop_container" /\ event_type_matches(inc, "new_container")
    THEN inc.events[1].raw.new_ids
    ELSE {}

\* _stop_containers: new_ids[:5]
StopIds(spec, inc) ==
  IF spec.action = "stop_container" /\ event_type_matches(inc, "new_container")
    THEN LET ids == SetToSeq(inc.events[1].raw.new_ids)
         IN Range(SubSeq(ids, 1, IF Len(ids) < 5 THEN Len(ids) ELSE 5))
    ELSE {}

RECURSIVE StopContainers(_, _, _)
\* the loop of _stop_containers over ids, oks[id] telling whether Docker stops id:
\* the lines added to the sinks and to incident.actions_taken
StopContainers(ids, oks, id) ==
  IF ids = <<>> THEN [audit |-> <<>>, activity |-> <<>>, taken |-> <<>>]
  ELSE LET rest == StopContainers(Tail(ids), oks, id)
           cid  == Head(ids)
       IN IF oks[cid]
            THEN [audit    |-> <<AuditRec("action", id, "stop_container")>> \o rest.audit,
                  activity |-> <<ActRec("command_execution", TRUE, <<"docker stop", cid>>, <<>>)>> \o rest.activity,
                  taken    |-> <<<<"Stopped container", cid>>>> \o rest.taken]
            ELSE [audit    |-> rest.audit,
                  activity |-> <<ActRec("command_execution", FALSE, <<"docker stop", cid>>, <<>>)>> \o rest.activity,
                  taken    |-> rest.taken]

\* Responder.execute: what one action adds to the sinks and to the incident
Responder_execute(spec, inc, oks) ==
  IF spec.action = "alert_only"
    THEN [audit |-> <<>>, activity |-> <<>>, taken |-> <<>>]
  ELSE IF spec.action = "stop_container" /\ event_type_matches(inc, "new_container")
    THEN StopContainers(SetToSeq(StopIds(spec, inc)), oks, inc.incident_id)
  ELSE IF spec.action = "block_ip_temporary" /\ event_type_matches(inc, "auth_failures")
    THEN [audit |-> <<AuditRec("action", inc.incident_id, "block_ip_temporary_skipped")>>,
          activity |-> <<>>, taken |-> <<>>]
  ELSE [audit |-> <<>>, activity |-> <<>>, taken |-> <<>>]

\* ------------------------------------------- detector/manager.py: snapshots

\* ingest_inventory recomputing all three sets in both branches, as
\* update_inventory does
ingest_inventory_all_sets(e) ==
  IF e.source = "host_collector"
    THEN /\ last_host_inv' = e.raw
         /\ last_ports' = PortSet(e.raw)
         /\ last_sudo_users' = SudoSet(e.raw)
         /\ last_containers' = {}
         /\ UNCHANGED last_docker_inv
  ELSE IF e.source = "docker_collector"
    THEN /\ last_docker_inv' = e.raw
         /\ last_containers' = ContainerIds(e.raw)
         /\ last_ports' = {}
         /\ last_sudo_users' = {}
         /\ UNCHANGED last_host_inv
  ELSE UNCHANGED mgrVars

\* DetectorManager.ingest_inventory
ingest_inventory(e) ==
  IF e.source = "host_collector"
    THEN /\ last_host_inv' = e.raw
         /\ last_ports' = PortSet(e.raw)
         /\ last_sudo_users' = SudoSet(e.raw)
         /\ UNCHANGED <<last_docker_inv, last_containers>>
  ELSE IF e.source = "docker_collector"
    THEN /\ last_docker_inv' = e.raw
         /\ last_containers' = ContainerIds(e.raw)
         /\ UNCHANGED <<last_host_inv, last_ports, last_sudo_users>>
  ELSE UNCHANGED mgrVars

\* -------------------------------------------- daemon.py: _process_event

\* A producer task (detector or drift cycle) puts a probe event on the queue.
Enqueue(e) ==
  /\ n_events < MaxEvents
  /\ n_events' = n_events + 1
  /\ event_queue' = Append(event_queue, e)
  /\ UNCHANGED <<config, activity, agentVars, pipeVars, mgrVars, daemonVars, checkVars, auxVars>>

\* _run_event_processor gets an event; _process_event classifies it.  An
\* inventory event only updates the snapshots.  For the others the advisor's
\* summary (s) is attached when the advisor is enabled.
PE_Dequeue(s) ==
  /\ pe_pc = "get"
  /\ event_queue # <<>>
  /\ event_queue' = Tail(event_queue)
  /\ LET e == Head(event_queue) IN
     IF IsInventory(e)
       THEN /\ ingest_inventory(e)
            /\ s = ""
            /\ UNCHANGED <<pe_pc, incident, n_incidents>>
       ELSE /\ s \in (IF config.llm_enabled /\ config.api_key THEN {"", "summary"} ELSE {""})
            /\ incident' = [Classify(e, n_incidents + 1) EXCEPT !.llm_summary = s]
            /\ pe_pc' = "audit"
            /\ n_incidents' = n_incidents + 1
            /\ UNCHANGED mgrVars
  /\ UNCHANGED <<config, n_events, activity, agentVars, allowed, act_idx, audit,
                 pending_digest, notifications, threats, threat_id, daemonVars, checkVars, auxVars>>

\* await self._audit.log_incident(incident)
PE_Audit ==
  /\ pe_pc = "audit"
  /\ audit' = Append(audit, AuditRec("incident", incident.incident_id, ""))
  /\ pe_pc' = "policy"
  /\ UNCHANGED <<config, event_queue, n_events, activity, agentVars, incident, allowed,
                 act_idx, pending_digest, notifications, threats, threat_id, n_incidents,
                 mgrVars, daemonVars, checkVars, auxVars>>

\* allowed = self._policy.allowed_actions(incident); log_policy_decision
PE_Policy ==
  /\ pe_pc = "policy"
  /\ allowed' = allowed_actions(config, incident)
  /\ act_idx' = 1
  /\ activity' = Append(activity, ActRec("policy_decision", TRUE, <<>>, <<incident.incident_id>>))
  /\ pe_pc' = "respond"
  /\ UNCHANGED <<config, event_queue, n_events, agentVars, incident, audit,
                 pending_digest, notifications, threats, threat_id, n_incidents,
                 mgrVars, daemonVars, checkVars, auxVars>>

\* one pass of "for action in allowed: await self._responder.execute(...)"
PE_Respond ==
  /\ pe_pc = "respond"
  /\ act_idx <= Len(allowed)
  /\ \E oks \in [StopIds(allowed[act_idx], incident) -> BOOLEAN] :
       LET eff == Responder_execute(allowed[act_idx], incident, oks) IN
       /\ audit' = audit \o eff.audit
       /\ activity' = activity \o eff.activity
       /\ incident' = [incident EXCEPT !.actions_taken = @ \o eff.taken]
  /\ act_idx' = act_idx + 1
  /\ pe_pc' = IF act_idx + 1 > Len(allowed) THEN "report" ELSE "respond"
  /\ UNCHANGED <<config, event_queue, n_events, agentVars, allowed,
                 pending_digest, notifications, threats, threat_id, n_incidents,
                 mgrVars, daemonVars, checkVars, auxVars>>

\* await self._reporter.report_incident(incident, actions_taken=allowed)
PE_Report ==
  /\ pe_pc = "report"
  /\ pending_digest' = Append(pending_digest, incident.incident_id)
  /\ notifications' =
       IF incident.severity \in config.immediate_severities
         THEN Append(notifications, [kind |-> "incident_alert", id |-> incident.incident_id])
         ELSE notifications
  /\ pe_pc' = "gate"
  /\ UNCHANGED <<config, event_queue, n_events, activity, agentVars, incident, allowed,
                 act_idx, audit, threats, threat_id, n_incidents, mgrVars, daemonVars, checkVars, auxVars>>

\* the resolve path with run_agent_loop started as a task of its own
\* instead of awaited: the processor goes back to the queue at once
PE_AgentGate_spawns ==
  /\ pe_pc = "gate"
  /\ agent_pc = "idle"
  /\ IF /\ config.llm_agent_enabled
        /\ config.run_on_incident
        /\ incident.severity \in {"P1", "P2"}
       THEN /\ threats' = Append(threats, [incident_id |-> incident.incident_id,
                                           resolution_actions |-> <<>>,
                                           resolved |-> FALSE])
            /\ threat_id' = Len(threats) + 1
            /\ run_agent_loop_enter("resolve", "incident")
            /\ UNCHANGED cli_pc
            /\ pe_pc' = "get"
            /\ UNCHANGED <<incident, allowed, act_idx>>
       ELSE /\ pe_pc' = "get"
            /\ incident' = NoIncident
            /\ allowed' = <<>>
            /\ act_idx' = 0
            /\ UNCHANGED <<threats, threat_id, agentVars>>
  /\ UNCHANGED <<config, event_queue, n_events, activity, audit, pending_digest,
                 notifications, n_incidents, mgrVars, daemonVars, checkVars, auxVars>>

\* the test guarding the resolve path, store_threat, and run_agent_loop up to
\* its first await
PE_AgentGate ==
  /\ pe_pc = "gate"
  /\ agent_pc = "idle"
  /\ IF /\ config.llm_agent_enabled
        /\ config.run_on_incident
        /\ incident.severity \in {"P1", "P2"}
       THEN /\ threats' = Append(threats, [incident_id |-> incident.incident_id,
                                           resolution_actions |-> <<>>,
                                           resolved |-> FALSE])
            /\ threat_id' = Len(threats) + 1
            /\ run_agent_loop_enter("resolve", "incident")
            /\ UNCHANGED cli_pc
            /\ pe_pc' = "agent"
            /\ UNCHANGED <<incident, allowed, act_idx>>
       ELSE /\ pe_pc' = "get"
            /\ incident' = NoIncident
            /\ allowed' = <<>>
            /\ act_idx' = 0
            /\ UNCHANGED <<threats, threat_id, agentVars>>
  /\ UNCHANGED <<config, event_queue, n_events, activity, audit, pending_digest,
                 notifications, n_incidents, mgrVars, daemonVars, checkVars, auxVars>>

\* the return from run_agent_loop with the call of mark_resolved left out
PE_AfterAgent_never_marks ==
  /\ pe_pc = "agent"
  /\ caller = "incident"
  /\ agent_pc = "returned"
  /\ UNCHANGED <<threats, notifications>>
  /\ pe_pc' = "get"
  /\ incident' = NoIncident
  /\ allowed' = <<>>
  /\ act_idx' = 0
  /\ threat_id' = 0
  /\ agent_pc' = "idle"
  /\ UNCHANGED <<caller, mode, iteration, total_commands, actions_taken, finding, result,
                 llm_calls, executed, hist, threat_reads, cli_pc>>
  /\ UNCHANGED <<config, event_queue, n_events, activity, audit, pending_digest,
                 n_incidents, mgrVars, daemonVars, checkVars, auxVars>>

\* run_agent_loop has returned: the summary line, mark_resolved and the
\* resolution notification when commands were executed
PE_AfterAgent ==
  /\ pe_pc = "agent"
  /\ caller = "incident"
  /\ agent_pc = "returned"
  /\ LET acts == IF result.has_actions_taken THEN result.actions_taken ELSE <<>> IN
     IF acts # <<>>
       THEN /\ threats' = [threats EXCEPT ![threat_id] =
                             [@ EXCEPT !.resolution_actions = acts, !.resolved = TRUE]]
            /\ notifications' = Append(notifications, [kind |-> "resolution", id |-> threat_id])
       ELSE UNCHANGED <<threats, notifications>>
  /\ pe_pc' = "get"
  /\ incident' = NoIncident
  /\ allowed' = <<>>
  /\ act_idx' = 0
  /\ threat_id' = 0
  /\ agent_pc' = "idle"
  /\ UNCHANGED <<caller, mode, iteration, total_commands, actions_taken, finding, result,
                 llm_calls, executed, hist, threat_reads, cli_pc>>
  /\ UNCHANGED <<config, event_queue, n_events, activity, audit, pending_digest,
                 n_incidents, mgrVars, daemonVars, checkVars, auxVars>>

\* ------------------------------------------------------- cli.py: cmd_agent

\* "opensecagent agent": one process that builds an LLMAgent and calls
\* run_agent_loop(context, None), mode defaulting to scan
CmdAgent ==
  /\ cli_pc = "start"
  /\ agent_pc = "idle"
  /\ cli_pc' = "running"
  /\ run_agent_loop_enter("scan", "cli")
  /\ UNCHANGED <<config, event_queue, n_events, activity, pipeVars, mgrVars, daemonVars, checkVars, auxVars>>

\* cmd_agent prints the result and the process ends
CmdAgentDone ==
  /\ cli_pc = "running"
  /\ caller = "cli"
  /\ agent_pc = "returned"
  /\ agent_pc' = "idle"
  /\ cli_pc' = "exited"
  /\ UNCHANGED <<caller, mode, iteration, total_commands, actions_taken, finding, result,
                 llm_calls, executed, hist, threat_reads>>
  /\ UNCHANGED <<config, event_queue, n_events, activity, pipeVars, mgrVars, daemonVars, checkVars, auxVars>>

\* ---------------------------------------------- daemon.py: periodic tasks

\* a collected inventory is a non-empty dict; {} is falsy
Truthy(inv) == inv.kind # "empty"

PortUniverse == {"22", "80"}
UserUniverse == {"alice", "mallory"}
IdUniverse   == {"c1", "c2"}

\* what the host and the Docker daemon may report when a collector runs
HostInvs ==
  {HostInv(<<"22">>, <<"alice">>),
   HostInv(<<"22", "80", "22">>, <<"alice", "mallory">>)}
DockerInvs ==
  {DockerInv(FALSE, <<>>),
   DockerInv(TRUE, <<Container("c1", "running")>>),
   DockerInv(TRUE, <<Container("c1", "exited"), Container("c2", "running")>>)}

\* _run_collectors, the host branch of one pass: collect, keep, log, enqueue
CollectHost(inv) ==
  /\ n_collects < MaxCollects
  /\ n_collects' = n_collects + 1
  /\ d_last_host_inv' = inv
  /\ activity' = Append(activity, ActRec("collector_run", TRUE, <<"host">>, <<>>))
  /\ event_queue' = event_queue \o host_inventory_to_events(inv)
  /\ last_enq_host' = inv
  /\ UNCHANGED <<config, n_events, agentVars, pipeVars, mgrVars, checkVars, auxVars,
                 d_last_docker_inv, det_task_pc, det_events, det_cycles, last_enq_docker,
                 prev_ports, prev_containers, prev_sudo_users>>

\* _run_collectors, the docker branch of one pass
CollectDocker(inv) ==
  /\ n_collects < MaxCollects
  /\ n_collects' = n_collects + 1
  /\ d_last_docker_inv' = inv
  /\ activity' = Append(activity, ActRec("collector_run", TRUE, <<"docker">>, <<>>))
  /\ event_queue' = event_queue \o docker_inventory_to_events(inv)
  /\ last_enq_docker' = IF Available(inv) THEN inv ELSE last_enq_docker
  /\ UNCHANGED <<config, n_events, agentVars, pipeVars, mgrVars, checkVars, auxVars,
                 d_last_host_inv, det_task_pc, det_events, det_cycles, last_enq_host,
                 prev_ports, prev_containers, prev_sudo_users>>

Some(ev) == IF ev = NoEvent THEN <<>> ELSE <<ev>>

\* DetectorManager.run_detectors: the events it returns and the sets it
\* stores; auth_ev and probe_evs are what the probe detectors found
run_detectors(auth_ev, probe_evs) ==
  LET port_ev == IF Truthy(last_host_inv)
                   THEN NewPortDetector_check(last_host_inv, last_ports) ELSE NoEvent
      cont_ev == IF Available(last_docker_inv)
                   THEN NewContainerDetector_check(last_docker_inv, last_containers) ELSE NoEvent
      user_ev == IF Truthy(last_host_inv)
                   THEN NewAdminUserDetector_check(last_host_inv, last_sudo_users) ELSE NoEvent
  IN [events          |-> Some(auth_ev) \o Some(port_ev) \o Some(cont_ev) \o Some(user_ev) \o probe_evs,
      last_ports      |-> IF Truthy(last_host_inv) THEN PortSet(last_host_inv) ELSE last_ports,
      last_containers |-> IF Available(last_docker_inv) THEN ContainerIds(last_docker_inv)
                                                        ELSE last_containers,
      last_sudo_users |-> IF Truthy(last_host_inv) THEN SudoSet(last_host_inv) ELSE last_sudo_users]

\* _run_detectors: one cycle's call of run_detectors
RunDetectors(auth_ev, probe_evs) ==
  /\ det_task_pc = "run"
  /\ det_cycles < MaxCycles
  /\ det_cycles' = det_cycles + 1
  /\ LET r == run_detectors(auth_ev, probe_evs) IN
     /\ det_events' = r.events
     /\ last_ports' = r.last_ports
     /\ last_containers' = r.last_containers
     /\ last_sudo_users' = r.last_sudo_users
     /\ prev_ports' = r.last_ports
     /\ prev_containers' = r.last_containers
     /\ prev_sudo_users' = r.last_sudo_users
  /\ det_task_pc' = "put"
  /\ UNCHANGED <<config, event_queue, n_events, activity, agentVars, pipeVars, checkVars, auxVars,
                 last_host_inv, last_docker_inv, d_last_host_inv, d_last_docker_inv,
                 n_collects, last_enq_host, last_enq_docker>>

\* _run_detectors: log the cycle and enqueue its events
DetectorsPut ==
  /\ det_task_pc = "put"
  /\ activity' = Append(activity, ActRec("detector_run", TRUE, <<>>, <<Len(det_events)>>))
  /\ event_queue' = event_queue \o det_events
  /\ det_events' = <<>>
  /\ det_task_pc' = "run"
  /\ UNCHANGED <<config, n_events, agentVars, pipeVars, mgrVars, checkVars, auxVars,
                 d_last_host_inv, d_last_docker_inv, det_cycles, n_collects,
                 last_enq_host, last_enq_docker, prev_ports, prev_containers, prev_sudo_users>>

\* ------------------------------------- daemon.py: _run_periodic_agent

\* a threat record store_threat writes for a scan finding
ScanThreat(f) == [finding |-> f, resolution_actions |-> <<>>, resolved |-> FALSE]

\* the test of the cycle with a finding reported on every return
HasFindingAlways(res) == TRUE

\* what a periodic cycle does after its loop, by the result's "finding" key
HasFinding(res) == res.finding # NoFinding

\* the sleep is over: a cycle is skipped unless llm_agent.enabled, else
\* run_agent_loop(context, None, mode="scan") runs up to its first await
PeriodicScan ==
  /\ scan_pc = "sleep"
  /\ agent_pc = "idle"
  /\ n_scans < MaxScans
  /\ n_scans' = n_scans + 1
  /\ IF config.llm_agent_enabled
       THEN /\ run_agent_loop_enter("scan", "periodic")
            /\ scan_pc' = "loop"
            /\ UNCHANGED cli_pc
       ELSE UNCHANGED <<agentVars, scan_pc>>
  /\ UNCHANGED <<scan_threat_id, reports, scan_log>>
  /\ UNCHANGED <<config, event_queue, n_events, activity, pipeVars, mgrVars, daemonVars,
                 checkVars, policyVars, driftVars, faultVars, shutVars, pureVars, tailVars>>

\* run_agent_loop has returned: with a finding, store_threat and
\* generate_vulnerability_pdf, up to the await of send_vulnerability_alert
PeriodicAfterLoop ==
  /\ scan_pc = "loop"
  /\ caller = "periodic"
  /\ agent_pc = "returned"
  /\ agent_pc' = "idle"
  /\ IF HasFinding(result)
       THEN LET id == Len(threats) + 1 IN
            /\ threats' = Append(threats, ScanThreat(result.finding))
            /\ scan_threat_id' = id
            /\ reports' = Append(reports, id)
            /\ scan_log' = scan_log \o <<[call |-> "store_threat", id |-> id],
                                          [call |-> "generate_vulnerability_pdf", id |-> id]>>
            /\ scan_pc' = "alert"
       ELSE /\ scan_pc' = "sleep"
            /\ UNCHANGED <<threats, scan_threat_id, reports, scan_log>>
  /\ UNCHANGED <<caller, mode, iteration, total_commands, actions_taken, finding, result,
                 llm_calls, executed, hist, threat_reads, cli_pc>>
  /\ UNCHANGED <<config, event_queue, n_events, activity, pe_pc, incident, allowed, act_idx,
                 audit, pending_digest, notifications, threat_id, n_incidents, n_scans,
                 mgrVars, daemonVars, checkVars, policyVars, driftVars, faultVars, shutVars, pureVars, tailVars>>

\* await self._reporter.send_vulnerability_alert(finding, threat_id, pdf_path)
PeriodicAlert ==
  /\ scan_pc = "alert"
  /\ notifications' = Append(notifications,
                             [kind |-> "vulnerability_alert", id |-> scan_threat_id])
  /\ scan_log' = Append(scan_log, [call |-> "send_vulnerability_alert", id |-> scan_threat_id])
  /\ scan_pc' = "sleep"
  /\ scan_threat_id' = 0
  /\ UNCHANGED <<config, event_queue, n_events, activity, agentVars, pe_pc, incident, allowed,
                 act_idx, audit, pending_digest, threats, threat_id, n_incidents,
                 n_scans, reports,
                 mgrVars, daemonVars, checkVars, policyVars, driftVars, faultVars, shutVars, pureVars, tailVars>>

\* ----------------------------------- reporter/audit.py, reporter/activity.py

SinkNames == {"audit", "activity"}

\* a sink object after __init__, on the file left on disk
NewSink(f) == [file |-> f, buffer |-> <<>>, lock |-> "free", open |-> FALSE]

\* open(path, "w") in the place of start()'s mode
OpenTruncate(s) == [s EXCEPT !.file = <<>>, !.open = TRUE]

\* start(): open(self._path, "a")
OpenAppend(s) == [s EXCEPT !.open = TRUE]

\* stop(): close() writes out what the buffer holds
Sink_stop(s) == [s EXCEPT !.file = @ \o s.buffer, !.buffer = <<>>, !.open = FALSE]

\* log_incident, log_action and _write: under "async with self._lock" one
\* json line is written and flushed, with no await in between
Sink_write(s, t, type, run) ==
  LET acquired == [s EXCEPT !.lock = t]
      written == [acquired EXCEPT !.buffer = Append(@, [type |-> type, by |-> t, run |-> run,
                                                        locked |-> acquired.lock = t])]
      flushed == [written EXCEPT !.file = @ \o written.buffer, !.buffer = <<>>]
  IN [flushed EXCEPT !.lock = "free"]

\* the records each task logs to each sink
RecordTypes(t, s) ==
  IF s = "activity"
    THEN CASE t = "collector" -> {"collector_run"}
           [] t = "drift" -> {"collector_run"}
           [] t = "detector" -> {"detector_run"}
           [] OTHER -> {"policy_decision", "command_execution"}
    ELSE IF t = "processor" THEN {"incident", "action"} ELSE {}

\* ------------------------------------- daemon.py: run and cleanup, main.py

\* the tasks Daemon.run creates, in the order of Daemon._tasks
TaskOrder == <<"collector", "drift", "processor", "detector">>

TaskNames == {TaskOrder[i] : i \in 1..Len(TaskOrder)}

\* the tasks whose "except Exception" handler awaits a call that can raise
FailingTasks == {"collector", "drift"}

\* main() starts a daemon process: Daemon.run starts the audit sink, the
\* activity sink and the reporter, creates the tasks and awaits their gather
DaemonRun ==
  /\ sh_pc \in {"down", "stopped", "escaped"}
  /\ n_starts < MaxStarts
  /\ n_starts' = n_starts + 1
  /\ sinks' = [s \in SinkNames |-> OpenAppend(NewSink(sinks[s].file))]
  /\ reporter_up' = TRUE
  /\ cl_tasks' = [t \in TaskNames |-> "running"]
  /\ cl_idx' = 1
  /\ sh_pc' = "run"
  /\ UNCHANGED n_writes
  /\ UNCHANGED <<config, event_queue, n_events, activity, agentVars, pipeVars, mgrVars, daemonVars,
                 checkVars, policyVars, driftVars, faultVars, scanVars, pureVars, tailVars>>

\* a running task logs one record to a sink
TaskLogs(t, s, type) ==
  /\ sh_pc \in {"run", "cleanup_tasks"}
  /\ cl_tasks[t] = "running"
  /\ type \in RecordTypes(t, s)
  /\ sinks[s].open
  /\ n_writes < MaxWrites
  /\ n_writes' = n_writes + 1
  /\ sinks' = [sinks EXCEPT ![s] = Sink_write(@, t, type, n_starts)]
  /\ UNCHANGED <<sh_pc, cl_tasks, cl_idx, reporter_up, n_starts>>
  /\ UNCHANGED <<config, event_queue, n_events, activity, agentVars, pipeVars, mgrVars, daemonVars,
                 checkVars, policyVars, driftVars, faultVars, scanVars, pureVars, tailVars>>

\* a task ends with an exception; the gather raises it out of Daemon.run and
\* main()'s finally calls Daemon.cleanup
TaskFails(t) ==
  /\ sh_pc = "run"
  /\ t \in FailingTasks
  /\ cl_tasks[t] = "running"
  /\ cl_tasks' = [cl_tasks EXCEPT ![t] = "failed"]
  /\ sh_pc' = "cleanup_tasks"
  /\ cl_idx' = 1
  /\ UNCHANGED <<sinks, reporter_up, n_writes, n_starts>>
  /\ UNCHANGED <<config, event_queue, n_events, activity, agentVars, pipeVars, mgrVars, daemonVars,
                 checkVars, policyVars, driftVars, faultVars, scanVars, pureVars, tailVars>>

\* SIGTERM or SIGINT: shutdown() stops the loop, run_until_complete raises
\* RuntimeError, and main()'s finally calls Daemon.cleanup
Signal ==
  /\ sh_pc = "run"
  /\ sh_pc' = "cleanup_tasks"
  /\ cl_idx' = 1
  /\ UNCHANGED <<cl_tasks, sinks, reporter_up, n_writes, n_starts>>
  /\ UNCHANGED <<config, event_queue, n_events, activity, agentVars, pipeVars, mgrVars, daemonVars,
                 checkVars, policyVars, driftVars, faultVars, scanVars, pureVars, tailVars>>

\* one turn of cleanup's for loop: t.cancel(), await t, "except
\* asyncio.CancelledError: pass"; the exception of a task that had failed
\* leaves cleanup and is dropped by main()'s "except Exception: pass"
CleanupTask ==
  /\ sh_pc = "cleanup_tasks"
  /\ LET t == TaskOrder[cl_idx] IN
       IF cl_tasks[t] = "failed"
         THEN /\ sh_pc' = "escaped"
              /\ UNCHANGED <<cl_tasks, cl_idx>>
         ELSE /\ cl_tasks' = [cl_tasks EXCEPT ![t] = "cancelled"]
              /\ IF cl_idx = Len(TaskOrder)
                   THEN sh_pc' = "cleanup_reporter" /\ UNCHANGED cl_idx
                   ELSE cl_idx' = cl_idx + 1 /\ UNCHANGED sh_pc
  /\ UNCHANGED <<sinks, reporter_up, n_writes, n_starts>>
  /\ UNCHANGED <<config, event_queue, n_events, activity, agentVars, pipeVars, mgrVars, daemonVars,
                 checkVars, policyVars, driftVars, faultVars, scanVars, pureVars, tailVars>>

\* await self._reporter.cleanup()
CleanupReporter ==
  /\ sh_pc = "cleanup_reporter"
  /\ reporter_up' = FALSE
  /\ sh_pc' = "cleanup_activity"
  /\ UNCHANGED <<cl_tasks, cl_idx, sinks, n_writes, n_starts>>
  /\ UNCHANGED <<config, event_queue, n_events, activity, agentVars, pipeVars, mgrVars, daemonVars,
                 checkVars, policyVars, driftVars, faultVars, scanVars, pureVars, tailVars>>

\* await self._activity.stop()
CleanupActivity ==
  /\ sh_pc = "cleanup_activity"
  /\ sinks' = [sinks EXCEPT !.activity = Sink_stop(@)]
  /\ sh_pc' = "cleanup_audit"
  /\ UNCHANGED <<cl_tasks, cl_idx, reporter_up, n_writes, n_starts>>
  /\ UNCHANGED <<config, event_queue, n_events, activity, agentVars, pipeVars, mgrVars, daemonVars,
                 checkVars, policyVars, driftVars, faultVars, scanVars, pureVars, tailVars>>

\* await self._audit.stop()
CleanupAudit ==
  /\ sh_pc = "cleanup_audit"
  /\ sinks' = [sinks EXCEPT !.audit = Sink_stop(@)]
  /\ sh_pc' = "stopped"
  /\ UNCHANGED <<cl_tasks, cl_idx, reporter_up, n_writes, n_starts>>
  /\ UNCHANGED <<config, event_queue, n_events, activity, agentVars, pipeVars, mgrVars, daemonVars,
                 checkVars, policyVars, driftVars, faultVars, scanVars, pureVars, tailVars>>

\* ------------------------------------------------- collector/drift.py

\* collector.critical_files: two plain paths, in the configured order
CriticalFiles == <<"/etc/passwd", "/etc/sudoers">>
Contents == {"v1", "v2"}
\* what a critical path may be on disk: a file with some content, nothing,
\* or a file whose read raises OSError
FileStates == Contents \cup {"absent", "unreadable"}

\* hashlib.sha256(bytes).hexdigest(): distinct contents, distinct digests
Hash(c) == <<"sha256", c>>

\* self._baseline = {} of __init__; a dict without keys
EmptyBaseline == [p \in {} |-> Hash("v1")]
NoFile == [exists |-> FALSE, data |-> EmptyBaseline]

\* DriftMonitor._compute_hashes: path -> digest for every entry that is a
\* file and can be read
compute_hashes(files) ==
  [p \in {q \in DOMAIN files : files[q] \in Contents} |-> Hash(files[p])]

RECURSIVE ChangedEvents(_, _, _)
\* check: the loop over current.items(), in the order of critical_files
ChangedEvents(order, base, cur) ==
  IF order = <<>> THEN <<>>
  ELSE LET p == Head(order)
           rest == ChangedEvents(Tail(order), base, cur)
       IN IF p \notin DOMAIN cur THEN rest
          ELSE IF p \notin DOMAIN base
            THEN <<Event("config_new_file", "drift", "P3", [path |-> p, hash |-> cur[p]])>> \o rest
          ELSE IF base[p] # cur[p]
            THEN <<Event("config_drift", "drift", "P2",
                         [path |-> p, old_hash |-> base[p], new_hash |-> cur[p]])>> \o rest
          ELSE rest

RECURSIVE DeletedEvents(_, _, _)
\* check: the loop over self._baseline
DeletedEvents(order, base, cur) ==
  IF order = <<>> THEN <<>>
  ELSE LET p == Head(order)
           rest == DeletedEvents(Tail(order), base, cur)
       IN IF p \in DOMAIN base /\ p \notin DOMAIN cur
            THEN <<Event("config_deleted", "drift", "P2", [path |-> p])>> \o rest
            ELSE rest

\* check with the first run reporting every file it has just recorded
DriftMonitor_check_first_run_reports(mem, file, files) ==
  LET loaded == IF mem = EmptyBaseline /\ file.exists THEN file.data ELSE mem
      current == compute_hashes(files)
  IN IF loaded = EmptyBaseline
       THEN [mem |-> current, file |-> [exists |-> TRUE, data |-> current],
             out |-> ChangedEvents(CriticalFiles, EmptyBaseline, current)]
       ELSE [mem |-> loaded, file |-> file,
             out |-> ChangedEvents(CriticalFiles, loaded, current)
                       \o DeletedEvents(CriticalFiles, loaded, current)]

\* check taking the compared hashes as its new baseline
DriftMonitor_check_rebaselines(mem, file, files) ==
  LET loaded == IF mem = EmptyBaseline /\ file.exists THEN file.data ELSE mem
      current == compute_hashes(files)
  IN IF loaded = EmptyBaseline
       THEN [mem |-> current, file |-> [exists |-> TRUE, data |-> current], out |-> <<>>]
       ELSE [mem |-> current, file |-> [exists |-> TRUE, data |-> current],
             out |-> ChangedEvents(CriticalFiles, loaded, current)
                       \o DeletedEvents(CriticalFiles, loaded, current)]

\* DriftMonitor.check: the in-memory baseline, the baseline file and the
\* returned events.  "not self._baseline" is true of the empty dict, so an
\* empty baseline is loaded again, found empty again, and rebuilt.
DriftMonitor_check(mem, file, files) ==
  LET loaded == IF mem = EmptyBaseline /\ file.exists THEN file.data ELSE mem
      current == compute_hashes(files)
  IN IF loaded = EmptyBaseline
       THEN [mem |-> current, file |-> [exists |-> TRUE, data |-> current], out |-> <<>>]
       ELSE [mem |-> loaded, file |-> file,
             out |-> ChangedEvents(CriticalFiles, loaded, current)
                       \o DeletedEvents(CriticalFiles, loaded, current)]

\* one cycle of _run_drift, or "opensecagent drift": a call of check
DriftCheck ==
  /\ n_drift_steps < MaxDriftSteps
  /\ n_drift_steps' = n_drift_steps + 1
  /\ n_checks' = n_checks + 1
  /\ LET r == DriftMonitor_check(baseline_mem, baseline_file, fs) IN
     /\ baseline_mem' = r.mem
     /\ baseline_file' = r.file
     /\ drift_out' = r.out
  /\ UNCHANGED fs
  /\ UNCHANGED <<config, event_queue, n_events, activity, agentVars, pipeVars, mgrVars, daemonVars,
                 checkVars, moreVars, policyVars, faultVars>>

\* somebody writes, creates, removes or locks a critical file
FileChange(p, s) ==
  /\ n_drift_steps < MaxDriftSteps
  /\ n_drift_steps' = n_drift_steps + 1
  /\ fs[p] # s
  /\ fs' = [fs EXCEPT ![p] = s]
  /\ UNCHANGED <<baseline_mem, baseline_file, drift_out, n_checks>>
  /\ UNCHANGED <<config, event_queue, n_events, activity, agentVars, pipeVars, mgrVars, daemonVars,
                 checkVars, moreVars, policyVars, faultVars>>

\* the process is started again: a new DriftMonitor, self._baseline = {}
DriftRestart ==
  /\ n_drift_steps < MaxDriftSteps
  /\ n_drift_steps' = n_drift_steps + 1
  /\ baseline_mem' = EmptyBaseline
  /\ UNCHANGED <<fs, baseline_file, drift_out, n_checks>>
  /\ UNCHANGED <<config, event_queue, n_events, activity, agentVars, pipeVars, mgrVars, daemonVars,
                 checkVars, moreVars, policyVars, faultVars>>

\* the operator deletes drift_baseline.json
OperatorDeletesBaseline ==
  /\ n_drift_steps < MaxDriftSteps
  /\ n_drift_steps' = n_drift_steps + 1
  /\ baseline_file.exists
  /\ baseline_file' = NoFile
  /\ UNCHANGED <<fs, baseline_mem, drift_out, n_checks>>
  /\ UNCHANGED <<config, event_queue, n_events, activity, agentVars, pipeVars, mgrVars, daemonVars,
                 checkVars, moreVars, policyVars, faultVars>>

\* ------------------------------------------------- daemon.py: failures

\* the tasks Daemon.run gathers, and Daemon.run itself
TasksRunning ==
  [collector |-> "running", detector |-> "running", processor |-> "running", run |-> "running"]

\* task t is in its while loop and Daemon.run is still awaiting the gather
Running(t) == task_state[t] = "running" /\ task_state.run = "running"

\* a task whose coroutine lets an exception escape ends, and asyncio.gather,
\* called without return_exceptions, raises it out of Daemon.run
TaskEnds(t) == [task_state EXCEPT ![t] = "ended", !.run = "ended"]

\* where the processor's loop stands after "except Exception" has logged
ProcessorResumeStopped == "stopped"

ProcessorResume == "get"

\* the sink writes a handler of the responder makes, one of which may fail:
\* "audit" is AuditLogger.log_action, "activity" the first
\* log_command_execution of a container, "activity_both" that one and the
\* one made by the inner except clause
HandlerFaults(spec, inc) ==
  IF spec.action = "stop_container" /\ event_type_matches(inc, "new_container")
    THEN {"audit", "activity", "activity_both"}
  ELSE IF spec.action = "block_ip_temporary" /\ event_type_matches(inc, "auth_failures")
    THEN {"audit"}
  ELSE {}

\* _stop_containers when a sink write fails at the first container: the
\* inner except clause logs the failed stop and the loop goes on; when that
\* write fails too the outer except clause ends the loop.  Nothing is raised.
StopContainersFault(ids, oks, id, f) ==
  IF ids = <<>> THEN [audit |-> <<>>, activity |-> <<>>, taken |-> <<>>, raised |-> FALSE]
  ELSE LET rest == StopContainers(Tail(ids), oks, id)
           cid  == Head(ids)
           stopped == ActRec("command_execution", TRUE, <<"docker stop", cid>>, <<>>)
           failed  == ActRec("command_execution", FALSE, <<"docker stop", cid>>, <<>>)
           none    == [audit |-> <<>>, activity |-> <<>>, taken |-> <<>>, raised |-> FALSE]
       IN IF oks[cid]
            THEN IF f = "audit"
                   THEN [audit |-> rest.audit, activity |-> <<stopped, failed>> \o rest.activity,
                         taken |-> rest.taken, raised |-> FALSE]
                 ELSE IF f = "activity"
                   THEN [audit |-> rest.audit, activity |-> <<failed>> \o rest.activity,
                         taken |-> rest.taken, raised |-> FALSE]
                 ELSE none
            ELSE IF f = "audit"
                   THEN [audit |-> rest.audit, activity |-> <<failed>> \o rest.activity,
                         taken |-> rest.taken, raised |-> FALSE]
                 ELSE none

\* Responder.execute when the sink write f of its handler fails: what it had
\* added to the sinks and to the incident, and whether it raises.
\* _block_ip_temporary awaits log_action outside any try.
Responder_execute_fault(spec, inc, oks, f) ==
  IF spec.action = "stop_container" /\ event_type_matches(inc, "new_container")
    THEN StopContainersFault(SetToSeq(StopIds(spec, inc)), oks, inc.incident_id, f)
  ELSE IF spec.action = "block_ip_temporary" /\ event_type_matches(inc, "auth_failures")
    THEN [audit |-> <<>>, activity |-> <<>>, taken |-> <<>>, raised |-> TRUE]
  ELSE [audit |-> <<>>, activity |-> <<>>, taken |-> <<>>, raised |-> FALSE]

\* one pass of the loop over allowed in which a sink write of the handler fails
PE_RespondFault(f) ==
  /\ pe_pc = "respond"
  /\ act_idx <= Len(allowed)
  /\ n_faults < MaxFaults
  /\ f \in HandlerFaults(allowed[act_idx], incident)
  /\ n_faults' = n_faults + 1
  /\ \E oks \in [StopIds(allowed[act_idx], incident) -> BOOLEAN] :
       LET eff == Responder_execute_fault(allowed[act_idx], incident, oks, f) IN
       /\ audit' = audit \o eff.audit
       /\ activity' = activity \o eff.activity
       /\ IF eff.raised
            THEN /\ pe_errors' = pe_errors + 1
                 /\ pe_pc' = ProcessorResume
                 /\ incident' = NoIncident
                 /\ allowed' = <<>>
                 /\ act_idx' = 0
            ELSE /\ incident' = [incident EXCEPT !.actions_taken = @ \o eff.taken]
                 /\ act_idx' = act_idx + 1
                 /\ pe_pc' = IF act_idx + 1 > Len(allowed) THEN "report" ELSE "respond"
                 /\ UNCHANGED <<allowed, pe_errors>>
  /\ UNCHANGED <<config, event_queue, n_events, agentVars,
                 pending_digest, notifications, threats, threat_id, n_incidents,
                 mgrVars, daemonVars, checkVars, moreVars, policyVars, driftVars, det_produced, task_state>>

\* log_incident or log_policy_decision raises (the sink's file write
\* fails): _process_event is left, "except Exception" of
\* _run_event_processor logs, and the loop takes the next event;
\* report_incident writes to no sink and a failed send is logged, not raised
PE_Raise ==
  /\ pe_pc \in {"audit", "policy"}
  /\ n_faults < MaxFaults
  /\ n_faults' = n_faults + 1
  /\ pe_errors' = pe_errors + 1
  /\ pe_pc' = ProcessorResume
  /\ incident' = NoIncident
  /\ allowed' = <<>>
  /\ act_idx' = 0
  /\ UNCHANGED <<config, event_queue, n_events, activity, agentVars, audit,
                 pending_digest, notifications, threats, threat_id, n_incidents,
                 mgrVars, daemonVars, checkVars, moreVars, policyVars, driftVars, det_produced, task_state>>

\* _run_detectors: a cycle in which a probe detector called after the diff
\* detectors (resources ... php_scan) raises.  run_detectors has no handler,
\* so the events list built so far is discarded with the frame, while the
\* stored sets keep their new values; "except Exception" of _run_detectors
\* logs and the task sleeps until its next cycle.
RunDetectorsRaise(auth_ev, probe_evs) ==
  /\ det_task_pc = "run"
  /\ det_cycles < MaxCycles
  /\ n_faults < MaxFaults
  /\ n_faults' = n_faults + 1
  /\ det_cycles' = det_cycles + 1
  /\ LET r == run_detectors(auth_ev, probe_evs) IN
     /\ det_produced' = r.events
     /\ last_ports' = r.last_ports
     /\ last_containers' = r.last_containers
     /\ last_sudo_users' = r.last_sudo_users
     /\ prev_ports' = r.last_ports
     /\ prev_containers' = r.last_containers
     /\ prev_sudo_users' = r.last_sudo_users
  /\ UNCHANGED <<det_events, det_task_pc>>
  /\ UNCHANGED <<config, event_queue, n_events, activity, agentVars, pipeVars, checkVars, moreVars,
                 policyVars, driftVars, pe_errors, task_state,
                 last_host_inv, last_docker_inv, d_last_host_inv, d_last_docker_inv,
                 n_collects, last_enq_host, last_enq_docker>>

\* _run_collectors, the host branch of a pass in which collect() or the
\* activity write of the try body raises: the except clause logs and awaits
\* log_collector_run(..., str(e)).  When that write succeeds the loop goes
\* on; when it fails too the exception leaves _run_collectors.
CollectHostRaise(handler_write_ok) ==
  /\ n_collects < MaxCollects
  /\ n_faults < MaxFaults
  /\ n_faults' = n_faults + 1
  /\ n_collects' = n_collects + 1
  /\ IF handler_write_ok
       THEN /\ activity' = Append(activity, ActRec("collector_run", FALSE, <<"host">>, <<>>))
            /\ UNCHANGED task_state
       ELSE /\ task_state' = TaskEnds("collector")
            /\ UNCHANGED activity
  /\ UNCHANGED <<config, event_queue, n_events, agentVars, pipeVars, mgrVars, checkVars, moreVars,
                 policyVars, driftVars, pe_errors, det_produced,
                 d_last_host_inv, d_last_docker_inv, det_task_pc, det_events, det_cycles,
                 last_enq_host, last_enq_docker, prev_ports, prev_containers, prev_sudo_users>>

\* --------------------------------------- one allowed_actions call on its own

\* PolicyEngine.allowed_actions(incident) on an engine built from the
\* configured tier and windows
PolicyOne ==
  /\ pol_pc = "ready"
  /\ pol_out' = allowed_actions([action_tier_max |-> pol_tier,
                                 in_maintenance_window |->
                                   in_maintenance_window(pol_windows, UtcNow)],
                                pol_inc)
  /\ pol_pc' = "done"
  /\ UNCHANGED <<pol_windows, pol_tier, pol_inc>>
  /\ UNCHANGED <<config, event_queue, n_events, activity, agentVars, pipeVars, mgrVars, daemonVars,
                 checkVars, moreVars, driftVars, faultVars>>

\* ------------------------------------------- one detector call on its own

BoundedSeq(S, n) == UNION {[1..k -> S] : k \in 0..n}

\* the inventories a detector call may be given; run_detectors calls the
\* container detector only with an inventory whose "available" is true
CheckInvs(which) ==
  IF which = "containers"
    THEN {DockerInv(a, cs) : a \in {TRUE},
                             cs \in BoundedSeq({Container(i, st) : i \in IdUniverse,
                                                                   st \in {"running", "exited"}}, MaxInvLen)}
    ELSE {HostInv(ps, us) : ps \in BoundedSeq(PortUniverse, MaxInvLen),
                            us \in BoundedSeq(UserUniverse, MaxInvLen)}

CheckPriors(which) ==
  IF which = "ports" THEN SUBSET PortUniverse
  ELSE IF which = "users" THEN SUBSET UserUniverse
  ELSE SUBSET IdUniverse

\* check(inventory, prior) of the detector named check_which
CheckOne ==
  /\ check_pc = "ready"
  /\ check_out' = IF check_which = "ports" THEN NewPortDetector_check(check_inv, check_prior)
                  ELSE IF check_which = "users" THEN NewAdminUserDetector_check(check_inv, check_prior)
                  ELSE NewContainerDetector_check(check_inv, check_prior)
  /\ check_pc' = "done"
  /\ UNCHANGED <<check_which, check_inv, check_prior>>
  /\ UNCHANGED <<config, event_queue, n_events, activity, agentVars, pipeVars, mgrVars, daemonVars,
                 auxVars>>

\* -------------------------------------------------------- specifications

\* the defaults of config.py with the agent switched on: llm_agent.enabled,
\* an API key, and an iteration cap of 1
AgentOnConfig ==
  [llm_agent_enabled |-> TRUE, llm_enabled |-> FALSE, api_key |-> TRUE,
   run_on_incident |-> TRUE, max_iterations |-> 1, action_tier_max |-> 1,
   in_maintenance_window |-> FALSE, immediate_severities |-> {"P1", "P2"}]

\* the configurations drawn: api_key is "llm.api_key is non-empty",
\* max_iterations is the value LLMAgent keeps in self._max_iterations
Configs ==
  [llm_agent_enabled : BOOLEAN, llm_enabled : BOOLEAN, api_key : BOOLEAN,
   run_on_incident : BOOLEAN, max_iterations : 0..MaxIterations, action_tier_max : {0, 1},
   in_maintenance_window : {FALSE}, immediate_severities : {{"P1", "P2"}}]

InitAgent ==
  /\ agent_pc = "idle" /\ caller = "none" /\ mode = "none"
  /\ iteration = 0 /\ total_commands = 0 /\ actions_taken = <<>> /\ finding = NoFinding
  /\ result = NoResult /\ llm_calls = 0 /\ executed = <<>> /\ hist = <<>> /\ threat_reads = 0
  /\ cli_pc = "start"

InitPipe ==
  /\ event_queue = <<>> /\ n_events = 0 /\ n_incidents = 0
  /\ pe_pc = "get" /\ incident = NoIncident /\ allowed = <<>> /\ act_idx = 0
  /\ audit = <<>> /\ activity = <<>> /\ pending_digest = <<>> /\ notifications = <<>>
  /\ threats = <<>> /\ threat_id = 0

InitDaemon ==
  /\ d_last_host_inv = EmptyInv /\ d_last_docker_inv = EmptyInv
  /\ last_host_inv = EmptyInv /\ last_docker_inv = EmptyInv
  /\ last_ports = {} /\ last_containers = {} /\ last_sudo_users = {}
  /\ det_task_pc = "run" /\ det_events = <<>> /\ det_cycles = 0 /\ n_collects = 0
  /\ last_enq_host = EmptyInv /\ last_enq_docker = EmptyInv
  /\ prev_ports = {} /\ prev_containers = {} /\ prev_sudo_users = {}

InitCheckIdle ==
  /\ check_which = "none" /\ check_inv = EmptyInv /\ check_prior = {}
  /\ check_out = NoEvent /\ check_pc = "off"

InitPolicyIdle ==
  /\ pol_windows = <<>> /\ pol_tier = 0 /\ pol_inc = NoIncident
  /\ pol_out = <<>> /\ pol_pc = "off"

InitDriftIdle ==
  /\ fs = [p \in {} |-> "absent"] /\ baseline_mem = EmptyBaseline /\ baseline_file = NoFile
  /\ drift_out = <<>> /\ n_checks = 0 /\ n_drift_steps = 0

InitFaultIdle ==
  /\ pe_errors = 0 /\ det_produced = <<>> /\ task_state = TasksRunning /\ n_faults = 0

InitScanIdle ==
  /\ scan_pc = "sleep" /\ n_scans = 0 /\ scan_threat_id = 0
  /\ reports = <<>> /\ scan_log = <<>>

InitPureIdle == pf_call = [fn |-> "none"] /\ pf_ret = <<>>

InitDigestIdle ==
  /\ dg_pc = "sleep60" /\ dg_now = 0 /\ dg_cfg = [enabled |-> FALSE]
  /\ dg_copy = <<>> /\ dg_sent = <<>> /\ n_reported = 0

InitCollIdle ==
  /\ co_pc = "host" /\ co_now = 0 /\ co_ival = [host |-> 0, docker |-> 0]
  /\ host_t = 0 /\ docker_t = 0 /\ co_runs = [host |-> <<>>, docker |-> <<>>]
  /\ n_loops = 0

InitRegIdle ==
  /\ tr_dir = [exists |-> FALSE, files |-> <<>>]
  /\ tr_call = [fn |-> "none"] /\ tr_ret = <<>> /\ n_tr_ops = 0

InitLateIdle == InitCollIdle /\ InitRegIdle

InitTailIdle == InitDigestIdle /\ InitLateIdle

InitShutIdle ==
  /\ sh_pc = "down" /\ cl_tasks = [t \in TaskNames |-> "cancelled"] /\ cl_idx = 1
  /\ sinks = [s \in SinkNames |-> NewSink(<<>>)]
  /\ reporter_up = FALSE /\ n_writes = 0 /\ n_starts = 0

\* the agent loop run once from the command line, for every configuration
\* of the keys LLMAgent reads and every sequence of the modelled responses
AgentConfigs == {c \in Configs : c.run_on_incident /\ c.action_tier_max = 1}

InitAgentSpec ==
  /\ config \in AgentConfigs
  /\ InitAgent /\ InitPipe /\ InitDaemon /\ InitCheckIdle
  /\ InitPolicyIdle /\ InitDriftIdle /\ InitFaultIdle /\ InitScanIdle /\ InitShutIdle /\ InitPureIdle /\ InitTailIdle

NextAgent ==
  \/ CmdAgent
  \/ CmdAgentDone
  \/ AgentCallFail
  \/ \E r \in Responses : AgentIteration(r)

SpecAgent == InitAgentSpec /\ [][NextAgent]_vars

\* the scan loop on responses with a finding, with an empty finding object
\* and with none
FindingResponses == {RespFinding, RespPaddedFinding, RespKeepGoing, RespEmptyFinding}

InitFinding == InitAgentSpec

NextFinding ==
  \/ CmdAgent
  \/ AgentCallFail
  \/ \E r \in FindingResponses : AgentIteration(r)

SpecFinding == InitFinding /\ [][NextFinding]_vars

\* run_agent_loop called with either mode, as its callers do: mode="scan"
\* (cmd_agent, _run_periodic_agent) or mode="resolve" (_process_events)
AgentCall(m) ==
  /\ cli_pc = "start"
  /\ agent_pc = "idle"
  /\ cli_pc' = "running"
  /\ run_agent_loop_enter(m, IF m = "scan" THEN "cli" ELSE "processor")
  /\ UNCHANGED <<config, event_queue, n_events, activity, pipeVars, mgrVars, daemonVars, checkVars, auxVars>>

InitModes == InitAgentSpec

NextModes ==
  \/ \E m \in {"scan", "resolve"} : AgentCall(m)
  \/ AgentCallFail
  \/ \E r \in Responses : AgentIteration(r)

SpecModes == InitModes /\ [][NextModes]_vars

\* the responses the model gives in the event pipeline's runs
PipelineResponses == {RespRejectThenSs, RespKeepGoing, RespOnlyRejected}

\* the event pipeline with its agent loop, and the command-line run, for
\* every configuration
Init ==
  /\ config \in Configs
  /\ InitAgent /\ InitPipe /\ InitDaemon /\ InitCheckIdle
  /\ InitPolicyIdle /\ InitDriftIdle /\ InitFaultIdle /\ InitScanIdle /\ InitShutIdle /\ InitPureIdle /\ InitTailIdle

Next ==
  \/ \E e \in ProbeEvents : Enqueue(e)
  \/ \E s \in {"", "summary"} : PE_Dequeue(s)
  \/ PE_Audit
  \/ PE_Policy
  \/ PE_Respond
  \/ PE_Report
  \/ PE_AgentGate
  \/ PE_AfterAgent
  \/ CmdAgent
  \/ CmdAgentDone
  \/ AgentCallFail
  \/ \E r \in PipelineResponses : AgentIteration(r)

Spec == Init /\ [][Next]_vars

\* one call of one diff detector, for every bounded inventory and prior set
InitCheck ==
  /\ config = AgentOnConfig
  /\ InitAgent /\ InitPipe /\ InitDaemon
  /\ check_which \in {"ports", "users", "containers"}
  /\ check_inv \in CheckInvs(check_which)
  /\ check_prior \in CheckPriors(check_which)
  /\ check_out = NoEvent
  /\ check_pc = "ready"
  /\ InitPolicyIdle /\ InitDriftIdle /\ InitFaultIdle /\ InitScanIdle /\ InitShutIdle /\ InitPureIdle /\ InitTailIdle

NextCheck == CheckOne

SpecCheck == InitCheck /\ [][NextCheck]_vars

\* one allowed_actions call, for every tier, every bounded list of windows
\* and every incident over the severities and the event types the rules read
Windows ==
  {Window(s, e, f) : s \in Times, e \in Times, f \in {"naive", "utc"}}
    \cup {Window(0, 2, "absent")}

PolicyIncidents ==
  {[incident_id |-> 1, severity |-> s, events |-> evs] :
     s \in Severities,
     evs \in {<<[event_type |-> "new_container"]>>,
              <<[event_type |-> "auth_failures"]>>,
              <<[event_type |-> "high_cpu"]>>,
              <<[event_type |-> "auth_failures"], [event_type |-> "new_container"]>>}}

InitPolicy ==
  /\ config = AgentOnConfig
  /\ InitAgent /\ InitPipe /\ InitDaemon /\ InitCheckIdle /\ InitDriftIdle /\ InitFaultIdle /\ InitScanIdle /\ InitShutIdle /\ InitPureIdle /\ InitTailIdle
  /\ pol_windows \in BoundedSeq(Windows, MaxWindows)
  /\ pol_tier \in 0..3
  /\ pol_inc \in PolicyIncidents
  /\ pol_out = <<>>
  /\ pol_pc = "ready"

NextPolicy == PolicyOne

SpecPolicy == InitPolicy /\ [][NextPolicy]_vars

\* the drift monitor from a first start, for every state of the critical
\* files, with file changes, restarts and deletions of the baseline file
InitDrift ==
  /\ config = AgentOnConfig
  /\ InitAgent /\ InitPipe /\ InitDaemon /\ InitCheckIdle /\ InitPolicyIdle /\ InitFaultIdle /\ InitScanIdle /\ InitShutIdle /\ InitPureIdle /\ InitTailIdle
  /\ fs \in [Range(CriticalFiles) -> FileStates]
  /\ baseline_mem = EmptyBaseline /\ baseline_file = NoFile
  /\ drift_out = <<>> /\ n_checks = 0 /\ n_drift_steps = 0

NextDrift ==
  \/ DriftCheck
  \/ \E p \in Range(CriticalFiles), s \in FileStates : FileChange(p, s)
  \/ DriftRestart
  \/ OperatorDeletesBaseline

SpecDrift == InitDrift /\ [][NextDrift]_vars

\* the periodic scan task, for every configuration of the keys the agent
\* reads and every sequence of responses with and without a finding
ScanResponses == {RespFinding, RespPaddedFinding, RespKeepGoing, RespOnlyRejected}

InitScan ==
  /\ config \in AgentConfigs
  /\ InitAgent /\ InitPipe /\ InitDaemon /\ InitCheckIdle
  /\ InitPolicyIdle /\ InitDriftIdle /\ InitFaultIdle /\ InitScanIdle /\ InitShutIdle /\ InitPureIdle /\ InitTailIdle

NextScan ==
  \/ PeriodicScan
  \/ AgentCallFail
  \/ \E r \in ScanResponses : AgentIteration(r)
  \/ PeriodicAfterLoop
  \/ PeriodicAlert

SpecScan == InitScan /\ [][NextScan]_vars

\* the functions of models.py called on their own: event_type_matches on
\* every incident of up to MaxIncEvents events, severity_from_str on the
\* four severity names and on strings that are none of them
TypeStrings == {"new_container", "auth_failures", "config_changed", ""}

SeverityStrings == {"P1", "P2", "P3", "P4", "p1", "P5", "P", "", "critical", " P1"}

IncidentsOf(n) ==
  UNION {[1..k -> [event_type : TypeStrings \ {""}]] : k \in 0..n}

ModelCalls ==
  {[fn |-> "event_type_matches", inc |-> [events |-> es], typ |-> t] :
       es \in IncidentsOf(MaxIncEvents), t \in TypeStrings}
    \cup {[fn |-> "severity_from_str", s |-> s] : s \in SeverityStrings}

ModelReturn ==
  /\ pf_ret = <<>>
  /\ pf_ret' = IF pf_call.fn = "event_type_matches"
                 THEN <<event_type_matches(pf_call.inc, pf_call.typ)>>
                 ELSE <<severity_from_str(pf_call.s)>>
  /\ UNCHANGED pf_call
  /\ UNCHANGED <<config, event_queue, n_events, activity, agentVars, pipeVars, mgrVars, daemonVars,
                 checkVars, policyVars, driftVars, faultVars, scanVars, shutVars, tailVars>>

InitModels ==
  /\ config = AgentOnConfig
  /\ InitAgent /\ InitPipe /\ InitDaemon /\ InitCheckIdle
  /\ InitPolicyIdle /\ InitDriftIdle /\ InitFaultIdle /\ InitScanIdle /\ InitShutIdle /\ InitTailIdle
  /\ pf_call \in ModelCalls /\ pf_ret = <<>>

NextModels == ModelReturn

SpecModels == InitModels /\ [][NextModels]_vars

\* ------------------------- detector/manager.py: correlate_and_classify

\* dict.get(key, default)
Get(d, k, default) == IF k \in DOMAIN d THEN d[k] ELSE default

\* s[:n]
Slice(s, n) == SubSeq(s, 1, IF Len(s) < n THEN Len(s) ELSE n)

\* the length title is cut to
TitleMax == 200

DefaultAdvice == "Review evidence and take action as per runbook."

\* _recommended_actions without its else branch
recommended_actions_table_only(event_type) ==
  CASE event_type = "config_drift" -> <<"Review changed file and confirm change is authorized.">>
    [] event_type = "auth_failures"
         -> <<"Consider blocking source IP or locking account after review.">>
    [] event_type = "new_container" -> <<"Confirm new container is expected; stop if not.">>
    [] OTHER -> <<>>

\* _recommended_actions, for the event types of the modelled events
recommended_actions(event_type) ==
  CASE event_type = "config_drift" -> <<"Review changed file and confirm change is authorized.">>
    [] event_type = "auth_failures"
         -> <<"Consider blocking source IP or locking account after review.">>
    [] event_type = "new_container" -> <<"Confirm new container is expected; stop if not.">>
    [] OTHER -> <<DefaultAdvice>>

\* _dict_to_event
dict_to_event(d) ==
  [event_type |-> Get(d, "event_type", ""), source |-> Get(d, "source", ""),
   severity |-> Severity(Get(d, "severity", "P4")), summary |-> Get(d, "summary", <<>>)]

\* correlate_and_classify: <<>> for None, else <<the incident>>; id stands
\* for the fresh uuid of incident_id
correlate_and_classify(event, id) ==
  IF /\ Get(event, "source", "None") \in {"host_collector", "docker_collector"}
     /\ Get(event, "event_type", "None") \in {"host_inventory", "docker_inventory"}
    THEN <<>>
    ELSE <<[incident_id |-> id,
            severity |-> Severity(Get(event, "severity", "P4")),
            title |-> Slice(Get(event, "summary", <<"Security event">>), TitleMax),
            narrative |-> Get(event, "summary", <<>>),
            events |-> <<dict_to_event(event)>>,
            recommended_actions |-> recommended_actions(Get(event, "event_type", "None")),
            actions_taken |-> <<>>]>>

\* a summary of n characters
SummaryOf(n) == [i \in 1..n |-> i % 10]

Summaries == {SummaryOf(3), SummaryOf(TitleMax), SummaryOf(TitleMax + 1)}

\* events as the drift monitor, the detectors and the normalizer build them
ProducedEvents ==
  {[event_type |-> "config_drift", source |-> "drift_monitor", severity |-> "P3", summary |-> s]
     : s \in Summaries}
  \cup {[event_type |-> t, source |-> "drift_monitor", severity |-> "P2", summary |-> s]
     : t \in {"config_new_file", "config_deleted"}, s \in Summaries}
  \cup {[event_type |-> "auth_failures", source |-> "detector.auth", severity |-> "P2",
         summary |-> s] : s \in Summaries}
  \cup {[event_type |-> "new_container", source |-> "detector.containers", severity |-> "P3",
         summary |-> s] : s \in Summaries}
  \cup {[event_type |-> "npm_audit_vulnerabilities", source |-> "detector.npm_audit",
         severity |-> v, summary |-> s] : v \in {"P1", "P2"}, s \in Summaries}
  \cup {[event_type |-> "nginx_security", source |-> "detector.nginx_audit", severity |-> "P4",
         summary |-> SummaryOf(3)],
        [event_type |-> "host_inventory", source |-> "host_collector", severity |-> "P4",
         summary |-> SummaryOf(3)],
        [event_type |-> "docker_inventory", source |-> "docker_collector", severity |-> "P4",
         summary |-> SummaryOf(3)]}

\* the event processor hands the next dequeued event to the manager
ClassifyNext ==
  /\ pf_call.fn = "correlate_and_classify"
  /\ Len(pf_ret) < Len(pf_call.events)
  /\ pf_ret' = Append(pf_ret, correlate_and_classify(pf_call.events[Len(pf_ret) + 1],
                                                      Len(pf_ret) + 1))
  /\ UNCHANGED pf_call
  /\ UNCHANGED <<config, event_queue, n_events, activity, agentVars, pipeVars, mgrVars, daemonVars,
                 checkVars, policyVars, driftVars, faultVars, scanVars, shutVars, tailVars>>

InitClassify ==
  /\ config = AgentOnConfig
  /\ InitAgent /\ InitPipe /\ InitDaemon /\ InitCheckIdle
  /\ InitPolicyIdle /\ InitDriftIdle /\ InitFaultIdle /\ InitScanIdle /\ InitShutIdle /\ InitTailIdle
  /\ pf_call \in {[fn |-> "correlate_and_classify", events |-> es]
                    : es \in [1..MaxClassified -> ProducedEvents]}
  /\ pf_ret = <<>>

NextClassify == ClassifyNext

SpecClassify == InitClassify /\ [][NextClassify]_vars

\* ------------------------------------- responder.py: execute on its own

\* _block_ip_temporary: the details of its log_action call
block_ip_details(spec) == [timeout_minutes |-> Get(spec, "timeout_minutes", 30)]

\* Responder.execute with the details of the audit actions it writes
Responder_execute_call(spec, inc, oks) ==
  [eff |-> Responder_execute(spec, inc, oks),
   details |-> IF spec.action = "block_ip_temporary" /\ event_type_matches(inc, "auth_failures")
                 THEN <<block_ip_details(spec)>> ELSE <<>>]

\* the action specs PolicyEngine.allowed_actions builds, and block_ip_temporary
\* with another timeout and with none
ActionSpecs ==
  {[action |-> "alert_only", tier |-> 0],
   [action |-> "stop_container", tier |-> 1, timeout_minutes |-> 60],
   [action |-> "block_ip_temporary", tier |-> 1, timeout_minutes |-> 30],
   [action |-> "block_ip_temporary", tier |-> 1, timeout_minutes |-> 5],
   [action |-> "block_ip_temporary", tier |-> 1]}

\* incidents of one event: new containers, failed logins, network load
RespondIncidents ==
  {Classify(Event("new_container", "detector.containers", "P3", [new_ids |-> ids]), 1)
     : ids \in SUBSET (1..MaxNewIds)}
  \cup {Classify(EvAuth, 1), Classify(EvHighNet, 1)}

RespondCalls ==
  {[fn |-> "Responder.execute", spec |-> s, inc |-> i, oks |-> o] :
     s \in ActionSpecs, i \in RespondIncidents, o \in [1..MaxNewIds -> BOOLEAN]}

RespondReturn ==
  /\ pf_call.fn = "Responder.execute"
  /\ pf_ret = <<>>
  /\ pf_ret' = <<Responder_execute_call(pf_call.spec, pf_call.inc, pf_call.oks)>>
  /\ UNCHANGED pf_call
  /\ UNCHANGED <<config, event_queue, n_events, activity, agentVars, pipeVars, mgrVars, daemonVars,
                 checkVars, policyVars, driftVars, faultVars, scanVars, shutVars, tailVars>>

InitRespond ==
  /\ config = AgentOnConfig
  /\ InitAgent /\ InitPipe /\ InitDaemon /\ InitCheckIdle
  /\ InitPolicyIdle /\ InitDriftIdle /\ InitFaultIdle /\ InitScanIdle /\ InitShutIdle /\ InitTailIdle
  /\ pf_call \in {c \in RespondCalls :
                    \A k \in 1..MaxNewIds : k \notin StopIds(c.spec, c.inc) => c.oks[k]}
  /\ pf_ret = <<>>

NextRespond == RespondReturn

SpecRespond == InitRespond /\ [][NextRespond]_vars

\* ------------------- a new_container event from the detector to the responder

\* what NewContainerDetector.check returns for (docker_inv, prior), and for
\* an event what _process_event makes of it under action_tier_max = tier:
\* the incident, the policy's actions and the containers the responder
\* asks Docker to stop
new_container_pipeline(docker_inv, prior, tier, window) ==
  LET ev  == NewContainerDetector_check(docker_inv, prior)
      cfg == [AgentOnConfig EXCEPT !.action_tier_max = tier, !.in_maintenance_window = window]
      inc == Classify(ev, 1)
      acts == allowed_actions(cfg, inc)
  IN IF ev = NoEvent
       THEN [event |-> NoEvent, incident |-> NoIncident, allowed |-> <<>>, stopped |-> {}]
       ELSE [event |-> ev, incident |-> inc, allowed |-> acts,
             stopped |-> UNION {StopIds(acts[i], inc) : i \in 1..Len(acts)}]

ContainerCalls ==
  {[fn |-> "new_container_pipeline", docker_inv |-> d, prior |-> s, tier |-> t, window |-> w] :
     d \in DockerInvs, s \in SUBSET IdUniverse, t \in 0..3, w \in BOOLEAN}

ContainerReturn ==
  /\ pf_call.fn = "new_container_pipeline"
  /\ pf_ret = <<>>
  /\ pf_ret' = <<new_container_pipeline(pf_call.docker_inv, pf_call.prior,
                                        pf_call.tier, pf_call.window)>>
  /\ UNCHANGED pf_call
  /\ UNCHANGED <<config, event_queue, n_events, activity, agentVars, pipeVars, mgrVars, daemonVars,
                 checkVars, policyVars, driftVars, faultVars, scanVars, shutVars, tailVars>>

InitContainers ==
  /\ config = AgentOnConfig
  /\ InitAgent /\ InitPipe /\ InitDaemon /\ InitCheckIdle
  /\ InitPolicyIdle /\ InitDriftIdle /\ InitFaultIdle /\ InitScanIdle /\ InitShutIdle /\ InitTailIdle
  /\ pf_call \in ContainerCalls
  /\ pf_ret = <<>>

NextContainers == ContainerReturn

SpecContainers == InitContainers /\ [][NextContainers]_vars

\* ---------------------------- reporter/manager.py: report_incident on its own

\* a ReporterManager after start(): the digest entries, the calls of
\* send_incident_alert and the mails that went out
NewReporter == [pending_digest |-> <<>>, alerts |-> <<>>, delivered |-> <<>>]

\* report_incident recording the incident in the digest only when it is not
\* alerted at once
report_incident_digest_or_alert(r, inc, notifications_cfg, send_ok) ==
  IF inc.severity \in Get(notifications_cfg, "immediate_severities", {"P1", "P2"})
    THEN [r EXCEPT !.alerts = Append(@, inc.incident_id),
                   !.delivered = IF send_ok THEN Append(@, inc.incident_id) ELSE @]
    ELSE [r EXCEPT !.pending_digest = Append(@, inc.incident_id)]

\* report_incident: the append to _pending_digest, then the alert when the
\* severity is immediate; _send_smtp and _send_resend log a failed send and
\* return
report_incident(r, inc, notifications_cfg, send_ok) ==
  LET appended == [r EXCEPT !.pending_digest = Append(@, inc.incident_id)]
      immediate == inc.severity \in Get(notifications_cfg, "immediate_severities", {"P1", "P2"})
  IN IF immediate
       THEN [appended EXCEPT !.alerts = Append(@, inc.incident_id),
                             !.delivered = IF send_ok THEN Append(@, inc.incident_id) ELSE @]
       ELSE appended

\* the notifications section: without the key, and with three other lists
NotificationConfigs ==
  {[admin_emails |-> <<"admin">>],
   [admin_emails |-> <<"admin">>, immediate_severities |-> {"P1"}],
   [admin_emails |-> <<"admin">>, immediate_severities |-> {}],
   [admin_emails |-> <<"admin">>, immediate_severities |-> {"P1", "P2", "P3", "P4"}]}

ReportCalls ==
  {[fn |-> "report_incident", cfg |-> c, sevs |-> ss, oks |-> os] :
     c \in NotificationConfigs, ss \in [1..MaxReports -> Severities],
     os \in [1..MaxReports -> BOOLEAN]}

\* the event processor reports its next incident
ReportNext ==
  /\ pf_call.fn = "report_incident"
  /\ Len(pf_ret) < MaxReports
  /\ LET k == Len(pf_ret) + 1
         before == IF k = 1 THEN NewReporter ELSE pf_ret[k - 1]
         inc == [incident_id |-> k, severity |-> pf_call.sevs[k]]
     IN pf_ret' = Append(pf_ret, report_incident(before, inc, pf_call.cfg, pf_call.oks[k]))
  /\ UNCHANGED pf_call
  /\ UNCHANGED <<config, event_queue, n_events, activity, agentVars, pipeVars, mgrVars, daemonVars,
                 checkVars, policyVars, driftVars, faultVars, scanVars, shutVars, tailVars>>

InitReport ==
  /\ config = AgentOnConfig
  /\ InitAgent /\ InitPipe /\ InitDaemon /\ InitCheckIdle
  /\ InitPolicyIdle /\ InitDriftIdle /\ InitFaultIdle /\ InitScanIdle /\ InitShutIdle /\ InitTailIdle
  /\ pf_call \in ReportCalls
  /\ pf_ret = <<>>

NextReport == ReportNext

SpecReport == InitReport /\ [][NextReport]_vars

\* ------------------------------ reporter/manager.py: _run_digest_loop

\* datetime.utcnow() of a clock that counts minutes: .hour, .minute, the day
Hour(t) == (t \div 60) % 24
Minute(t) == t % 60
Day(t) == t \div (24 * 60)

\* the test of the loop with the hour left out
DigestMatchesAnyHour(t, cfg) == Minute(t) >= Get(cfg, "minute", 0)

\* now.hour == hour and now.minute >= minute
DigestMatches(t, cfg) ==
  Hour(t) = Get(cfg, "hour_utc", 8) /\ Minute(t) >= Get(cfg, "minute", 0)

\* one turn of the loop: sleep(60) is over and the clock reads t; on a match
\* a non-empty digest is copied and cleared in one step, up to the await of
\* send_daily_digest, and an empty one goes straight to sleep(3600)
DigestCheck(t) ==
  /\ dg_pc = "sleep60"
  /\ t > dg_now
  /\ dg_now' = t
  /\ IF DigestMatches(t, dg_cfg)
       THEN IF pending_digest # <<>>
              THEN /\ dg_copy' = pending_digest
                   /\ pending_digest' = <<>>
                   /\ dg_pc' = "send"
              ELSE /\ dg_pc' = "sleep3600"
                   /\ UNCHANGED <<dg_copy, pending_digest>>
       ELSE UNCHANGED <<dg_pc, dg_copy, pending_digest>>
  /\ UNCHANGED <<dg_cfg, dg_sent, n_reported>>
  /\ UNCHANGED <<config, event_queue, n_events, activity, agentVars, pe_pc, incident, allowed,
                 act_idx, audit, notifications, threats, threat_id, n_incidents,
                 mgrVars, daemonVars, checkVars, policyVars, driftVars, faultVars,
                 scanVars, shutVars, pureVars, lateVars>>

\* the flush clearing _pending_digest after the await instead of before it
DigestSendThenClear ==
  /\ dg_pc = "send"
  /\ dg_sent' = Append(dg_sent, [at |-> dg_now, incidents |-> dg_copy])
  /\ dg_copy' = <<>>
  /\ pending_digest' = <<>>
  /\ dg_pc' = "sleep3600"
  /\ UNCHANGED <<dg_now, dg_cfg, n_reported>>
  /\ UNCHANGED <<config, event_queue, n_events, activity, agentVars, pe_pc, incident, allowed,
                 act_idx, audit, notifications, threats, threat_id, n_incidents,
                 mgrVars, daemonVars, checkVars, policyVars, driftVars, faultVars,
                 scanVars, shutVars, pureVars, lateVars>>

\* await self._email_reporter.send_daily_digest(copy) returns
DigestSend ==
  /\ dg_pc = "send"
  /\ dg_sent' = Append(dg_sent, [at |-> dg_now, incidents |-> dg_copy])
  /\ dg_copy' = <<>>
  /\ dg_pc' = "sleep3600"
  /\ UNCHANGED <<dg_now, dg_cfg, n_reported, pending_digest>>
  /\ UNCHANGED <<config, event_queue, n_events, activity, agentVars, pe_pc, incident, allowed,
                 act_idx, audit, notifications, threats, threat_id, n_incidents,
                 mgrVars, daemonVars, checkVars, policyVars, driftVars, faultVars,
                 scanVars, shutVars, pureVars, lateVars>>

\* await asyncio.sleep(3600) is over
DigestSleepHour ==
  /\ dg_pc = "sleep3600"
  /\ dg_now' = dg_now + 60
  /\ dg_pc' = "sleep60"
  /\ UNCHANGED <<dg_cfg, dg_copy, dg_sent, n_reported, pending_digest>>
  /\ UNCHANGED <<config, event_queue, n_events, activity, agentVars, pe_pc, incident, allowed,
                 act_idx, audit, notifications, threats, threat_id, n_incidents,
                 mgrVars, daemonVars, checkVars, policyVars, driftVars, faultVars,
                 scanVars, shutVars, pureVars, lateVars>>

\* the event processor calls report_incident: the append to _pending_digest
DigestReport ==
  /\ n_reported < MaxDigestReports
  /\ n_reported' = n_reported + 1
  /\ pending_digest' = Append(pending_digest, n_reported + 1)
  /\ UNCHANGED <<dg_pc, dg_now, dg_cfg, dg_copy, dg_sent>>
  /\ UNCHANGED <<config, event_queue, n_events, activity, agentVars, pe_pc, incident, allowed,
                 act_idx, audit, notifications, threats, threat_id, n_incidents,
                 mgrVars, daemonVars, checkVars, policyVars, driftVars, faultVars,
                 scanVars, shutVars, pureVars, lateVars>>

\* ------------------------------------------- daemon.py: _run_collectors

\* the variables the collector task leaves alone
CollFrame ==
  UNCHANGED <<config, event_queue, n_events, activity, agentVars, pipeVars,
              mgrVars, daemonVars, checkVars, policyVars, driftVars, faultVars,
              scanVars, shutVars, pureVars, digestVars, regVars>>

Min3(a, b, c) ==
  IF a <= b /\ a <= c THEN a ELSE IF b <= c THEN b ELSE c

\* 'if host_t <= 0: host_t = host_ival' and the host collection; the
\* collection itself is taken to last no time
CollectorsHost ==
  /\ co_pc = "host"
  /\ n_loops < MaxLoops
  /\ n_loops' = n_loops + 1
  /\ IF host_t <= 0
       THEN /\ host_t' = co_ival.host
            /\ co_runs' = [co_runs EXCEPT !.host = Append(@, co_now)]
       ELSE UNCHANGED <<host_t, co_runs>>
  /\ co_pc' = "docker"
  /\ UNCHANGED <<co_now, co_ival, docker_t>>
  /\ CollFrame

\* 'if docker_t <= 0: docker_t = docker_ival' and the docker collection
CollectorsDocker ==
  /\ co_pc = "docker"
  /\ IF docker_t <= 0
       THEN /\ docker_t' = co_ival.docker
            /\ co_runs' = [co_runs EXCEPT !.docker = Append(@, co_now)]
       ELSE UNCHANGED <<docker_t, co_runs>>
  /\ co_pc' = "sleep"
  /\ UNCHANGED <<co_now, co_ival, host_t, n_loops>>
  /\ CollFrame

\* 'await asyncio.sleep(min(30, host_t, docker_t)); host_t -= 30;
\* docker_t -= 30'
CollectorsSleep ==
  /\ co_pc = "sleep"
  /\ co_now' = co_now + Min3(30, host_t, docker_t)
  /\ host_t' = host_t - 30
  /\ docker_t' = docker_t - 30
  /\ co_pc' = "host"
  /\ UNCHANGED <<co_ival, co_runs, n_loops>>
  /\ CollFrame

\* the intervals of the presets quick, standard (also the defaults) and deep
ScanFrequencies ==
  {[host |-> 600, docker |-> 120], [host |-> 300, docker |-> 60],
   [host |-> 180, docker |-> 45]}

InitCollectors ==
  /\ config = AgentOnConfig
  /\ InitAgent /\ InitPipe /\ InitDaemon /\ InitCheckIdle
  /\ InitPolicyIdle /\ InitDriftIdle /\ InitFaultIdle /\ InitScanIdle /\ InitShutIdle
 /\ InitPureIdle /\ InitDigestIdle /\ InitRegIdle
  /\ co_pc = "host" /\ co_now = 0 /\ co_ival \in ScanFrequencies
  /\ host_t = 0 /\ docker_t = 0 /\ co_runs = [host |-> <<>>, docker |-> <<>>]
  /\ n_loops = 0

NextCollectors == CollectorsHost \/ CollectorsDocker \/ CollectorsSleep

SpecCollectors == InitCollectors /\ [][NextCollectors]_vars

\* ------------------------------------------------------ threat_registry.py

\* Python's None and a present value: <<>> and <<v>>
None == <<>>
Given(v) == <<v>>

\* a dict key as Python holds it: an int or a str
Key(t, v) == [t |-> t, v |-> v]

\* json.dump writes every key of a dict as a string
json_dump(d) == {<<Key("str", kv[1].v), kv[2]>> : kv \in d}

\* the files of a directory with one file written
WriteFile(files, name, content) ==
  [n \in DOMAIN files \cup {name} |-> IF n = name THEN content ELSE files[n]]

\* ensure_threats_dir and store_threat; uuid is what uuid4 gives, now the clock
store_threat(dir, title, description, severity, evidence, resolution_actions, tid, uuid, now) ==
  LET id     == IF tid = None \/ tid = Given("") THEN uuid ELSE tid[1]
      truthy == resolution_actions # None /\ resolution_actions # Given(<<>>)
      record == [threat_id          |-> id,
                 title              |-> title,
                 description        |-> description,
                 severity           |-> severity,
                 evidence           |-> json_dump(evidence),
                 resolution_actions |-> IF truthy THEN resolution_actions[1] ELSE <<>>,
                 detected_at        |-> now,
                 resolved_at        |-> IF truthy THEN Given(now) ELSE None]
  IN [dir |-> [exists |-> TRUE, files |-> WriteFile(dir.files, id, record)],
      ret |-> Given(id)]

\* a mark_resolved without 'if not path.exists(): return'
mark_resolved_unguarded(dir, tid, taken, now) ==
  LET old == IF tid \in DOMAIN dir.files
               THEN dir.files[tid] ELSE [threat_id |-> tid]
      rec == [k \in DOMAIN old \cup {"resolution_actions", "resolved_at"} |->
                IF k = "resolution_actions" THEN taken
                ELSE IF k = "resolved_at" THEN Given(now) ELSE old[k]]
  IN [dir |-> [exists |-> TRUE, files |-> WriteFile(dir.files, tid, rec)],
      ret |-> None]

mark_resolved(dir, tid, taken, now) ==
  IF tid \notin DOMAIN dir.files
    THEN [dir |-> dir, ret |-> None]
    ELSE [dir |-> [dir EXCEPT !.files[tid] =
                     [@ EXCEPT !.resolution_actions = taken,
                               !.resolved_at = Given(now)]],
          ret |-> None]

\* the variables the threat registry leaves alone
RegFrame ==
  UNCHANGED <<config, event_queue, n_events, activity, agentVars, pipeVars,
              mgrVars, daemonVars, checkVars, policyVars, driftVars, faultVars,
              scanVars, shutVars, pureVars, digestVars, collVars>>

ThreatIds == {"thr-1", "thr-a", "thr-b"}
Uuids == {"thr-a", "thr-b"}
ActionLists == {<<>>, <<"docker stop c1", "ufw deny from 10.0.0.9">>}

\* the (title, description, severity, evidence) of the stored threats
ThreatFacts ==
  {[title |-> "New container", description |-> "d1", severity |-> "P3",
    evidence |-> {<<Key("str", "id"), "c1">>}],
   [title |-> "Open port", description |-> "d2", severity |-> "P1",
    evidence |-> {<<Key("int", "8080"), "tcp">>, <<Key("str", "host"), "h1">>}]}

RegistryStore ==
  /\ n_tr_ops < MaxRegistryOps
  /\ \E f \in ThreatFacts, ra \in {None} \cup {Given(a) : a \in ActionLists},
        tid \in {None, Given(""), Given("thr-1")}, uuid \in Uuids :
       LET now == n_tr_ops + 1
           r   == store_threat(tr_dir, f.title, f.description, f.severity, f.evidence,
                               ra, tid, uuid, now)
       IN /\ tr_call' = [fn |-> "store_threat", facts |-> f, resolution_actions |-> ra,
                         threat_id |-> tid, uuid |-> uuid, now |-> now, before |-> tr_dir]
          /\ tr_dir' = r.dir
          /\ tr_ret' = r.ret
  /\ n_tr_ops' = n_tr_ops + 1
  /\ RegFrame

RegistryMarkResolved ==
  /\ n_tr_ops < MaxRegistryOps
  /\ \E tid \in ThreatIds, actions \in ActionLists :
       LET now == n_tr_ops + 1
           r   == mark_resolved(tr_dir, tid, actions, now)
       IN /\ tr_call' = [fn |-> "mark_resolved", threat_id |-> tid,
                         actions_taken |-> actions, now |-> now, before |-> tr_dir]
          /\ tr_dir' = r.dir
          /\ tr_ret' = r.ret
  /\ n_tr_ops' = n_tr_ops + 1
  /\ RegFrame

InitRegistry ==
  /\ config = AgentOnConfig
  /\ InitAgent /\ InitPipe /\ InitDaemon /\ InitCheckIdle
  /\ InitPolicyIdle /\ InitDriftIdle /\ InitFaultIdle /\ InitScanIdle /\ InitShutIdle
  /\ InitPureIdle /\ InitDigestIdle /\ InitCollIdle /\ InitRegIdle

NextRegistry == RegistryStore \/ RegistryMarkResolved

SpecRegistry == InitRegistry /\ [][NextRegistry]_vars

\* the digest task against the clock: the daemon starts at one of
\* DigestStarts with one of DigestConfigs, every sleep(60) takes one minute,
\* and incidents are reported before the first check and while a digest is
\* sent or slept on
DigestStarts == {7 * 60 + 58, 8 * 60 + 29, 8 * 60 + 45, 9 * 60}

DigestConfigs ==
  {[enabled |-> TRUE], [enabled |-> TRUE, hour_utc |-> 8, minute |-> 30],
   [enabled |-> TRUE, hour_utc |-> 8, minute |-> 59]}

InitDigestClock ==
  /\ config = AgentOnConfig
  /\ InitAgent /\ InitPipe /\ InitDaemon /\ InitCheckIdle
  /\ InitPolicyIdle /\ InitDriftIdle /\ InitFaultIdle /\ InitScanIdle /\ InitShutIdle
  /\ InitPureIdle /\ InitLateIdle
  /\ dg_pc = "sleep60" /\ dg_now \in DigestStarts /\ dg_cfg \in DigestConfigs
  /\ dg_copy = <<>> /\ dg_sent = <<>> /\ n_reported = 0

NextDigestClock ==
  \/ dg_now < MaxDigestDays * 24 * 60 /\ DigestCheck(dg_now + 1)
  \/ DigestSend
  \/ DigestSleepHour
  \/ (dg_pc # "sleep60" \/ dg_now \in DigestStarts) /\ DigestReport

SpecDigestClock == InitDigestClock /\ [][NextDigestClock]_vars

\* the digest task against the event processor: report_incident is called
\* at any point of the loop, the await of send_daily_digest included; of
\* the checks only those just before and at the configured time of each
\* day are followed
DigestCheckTimes(cfg) ==
  {d * 24 * 60 + Get(cfg, "hour_utc", 8) * 60 + Get(cfg, "minute", 0) + m
     : d \in 0..(MaxDigestDays - 1), m \in {-1, 0}}

InitDigest ==
  /\ config = AgentOnConfig
  /\ InitAgent /\ InitPipe /\ InitDaemon /\ InitCheckIdle
  /\ InitPolicyIdle /\ InitDriftIdle /\ InitFaultIdle /\ InitScanIdle /\ InitShutIdle
  /\ InitPureIdle /\ InitLateIdle
  /\ dg_pc = "sleep60" /\ dg_now = 0 /\ dg_cfg \in DigestConfigs
  /\ dg_copy = <<>> /\ dg_sent = <<>> /\ n_reported = 0

NextDigest ==
  \/ \E t \in DigestCheckTimes(dg_cfg) : DigestCheck(t)
  \/ DigestSend
  \/ DigestSleepHour
  \/ DigestReport

SpecDigest == InitDigest /\ [][NextDigest]_vars

\* daemon processes started and shut down one after the other on the same
\* two log files, by a signal or by a task that ended with an exception
InitShutdown ==
  /\ config = AgentOnConfig
  /\ InitAgent /\ InitPipe /\ InitDaemon /\ InitCheckIdle
  /\ InitPolicyIdle /\ InitDriftIdle /\ InitFaultIdle /\ InitScanIdle /\ InitShutIdle /\ InitPureIdle /\ InitTailIdle

NextShutdown ==
  \/ DaemonRun
  \/ \E t \in TaskNames, s \in SinkNames : \E type \in RecordTypes(t, s) : TaskLogs(t, s, type)
  \/ \E t \in FailingTasks : TaskFails(t)
  \/ Signal
  \/ CleanupTask
  \/ CleanupReporter
  \/ CleanupActivity
  \/ CleanupAudit

SpecShutdown == InitShutdown /\ [][NextShutdown]_vars

\* the daemon's tasks when a call inside a cycle fails: the responder and
\* the policy engine at tier 1, the agent switched off
FaultConfig == [AgentOnConfig EXCEPT !.llm_agent_enabled = FALSE]

InitFaults ==
  /\ config = FaultConfig
  /\ InitAgent /\ InitPipe /\ InitDaemon /\ InitCheckIdle
  /\ InitPolicyIdle /\ InitDriftIdle /\ InitFaultIdle /\ InitScanIdle /\ InitShutIdle /\ InitPureIdle /\ InitTailIdle

NextFaults ==
  \/ Running("collector") /\ CollectHost(HostInv(<<"22">>, <<"alice">>))
  \/ Running("collector") /\ \E ok \in BOOLEAN : CollectHostRaise(ok)
  \/ Running("detector") /\ \E a \in {NoEvent, EvAuth} : RunDetectors(a, <<>>)
  \/ Running("detector") /\ \E a \in {NoEvent, EvAuth} : RunDetectorsRaise(a, <<>>)
  \/ Running("detector") /\ DetectorsPut
  \/ Running("processor") /\ PE_Dequeue("")
  \/ Running("processor") /\ PE_Audit
  \/ Running("processor") /\ PE_Policy
  \/ Running("processor") /\ PE_Respond
  \/ Running("processor") /\ \E f \in {"audit", "activity", "activity_both"} : PE_RespondFault(f)
  \/ Running("processor") /\ PE_Report
  \/ Running("processor") /\ PE_AgentGate
  \/ Running("processor") /\ PE_Raise

SpecFaults == InitFaults /\ [][NextFaults]_vars

\* the collectors and a probe detector feeding the event processor: what
\* the processor does with an inventory event and with any other event
InitIngest ==
  /\ config = FaultConfig
  /\ InitAgent /\ InitPipe /\ InitDaemon /\ InitCheckIdle
  /\ InitPolicyIdle /\ InitDriftIdle /\ InitFaultIdle /\ InitScanIdle /\ InitShutIdle /\ InitPureIdle /\ InitTailIdle

NextIngest ==
  \/ \E inv \in HostInvs : CollectHost(inv)
  \/ \E inv \in DockerInvs : CollectDocker(inv)
  \/ Enqueue(EvAuth)
  \/ PE_Dequeue("")
  \/ PE_Audit
  \/ PE_Policy
  \/ PE_Respond
  \/ PE_Report
  \/ PE_AgentGate

SpecIngest == InitIngest /\ [][NextIngest]_vars

\* the event processor with its resolve loop, and the producers that fill
\* the queue behind the event in hand
InitSerial ==
  /\ config \in {c \in Configs : /\ c.llm_agent_enabled /\ c.api_key /\ c.run_on_incident
                                   /\ ~c.llm_enabled /\ c.max_iterations > 0}
  /\ InitAgent /\ InitPipe /\ InitDaemon /\ InitCheckIdle
  /\ InitPolicyIdle /\ InitDriftIdle /\ InitFaultIdle /\ InitScanIdle /\ InitShutIdle /\ InitPureIdle /\ InitTailIdle

NextSerial ==
  \/ \E e \in {EvAuth, EvHighNet} : Enqueue(e)
  \/ CollectHost(HostInv(<<"22">>, <<"alice">>))
  \/ PE_Dequeue("")
  \/ PE_Audit
  \/ PE_Policy
  \/ PE_Respond
  \/ PE_Report
  \/ PE_AgentGate
  \/ PE_AfterAgent
  \/ PE_Raise
  \/ AgentCallFail
  \/ \E r \in PipelineResponses : AgentIteration(r)

SpecSerial == InitSerial /\ [][NextSerial]_vars

\* the daemon's collector, detector and event-processor tasks
InitDaemonSpec ==
  /\ config = AgentOnConfig
  /\ InitAgent /\ InitPipe /\ InitDaemon /\ InitCheckIdle
  /\ InitPolicyIdle /\ InitDriftIdle /\ InitFaultIdle /\ InitScanIdle /\ InitShutIdle /\ InitPureIdle /\ InitTailIdle

NextDaemon ==
  \/ \E inv \in HostInvs : CollectHost(inv)
  \/ \E inv \in DockerInvs : CollectDocker(inv)
  \/ \E a \in {NoEvent, EvAuth} : RunDetectors(a, <<>>)
  \/ DetectorsPut
  \/ \E s \in {"", "summary"} : PE_Dequeue(s)
  \/ PE_Audit
  \/ PE_Policy
  \/ PE_Respond
  \/ PE_Report
  \/ PE_AgentGate
  \/ PE_AfterAgent
  \/ AgentCallFail
  \/ \E r \in {RespRejectThenSs} : AgentIteration(r)

SpecDaemon == InitDaemonSpec /\ [][NextDaemon]_vars

\* ------------------------------------------------------------ properties

\* C1 - whitelist totality: every command the agent loop has passed to
\* _execute_command is the stripped string, is accepted by
\* is_command_allowed and matches a whitelist pattern at its first
\* character; the suggested strings that match no pattern, are empty or
\* start with '#' are never among the executed ones.
C1_WhitelistTotality ==
  \A i \in 1..Len(executed) :
    /\ executed[i] = Strip(executed[i])
    /\ is_command_allowed(executed[i])
    /\ \E p \in 1..Len(ALLOWED_COMMANDS) : MatchAt(ALLOWED_COMMANDS[p], 1, executed[i], 1)
    /\ executed[i] \notin {CmdRm, CmdWhoamiX, CmdComment, CmdEmpty, CmdBlank, CmdSsNoArg,
                           CmdWhoamiPadded}

\* a response listing 'rm -rf /' and 'ss -tln' has been handled and only
\* 'ss -tln' was executed
C1_RejectedSkippedAcceptedRun ==
  /\ agent_pc = "returned"
  /\ \E i \in 1..Len(hist) :
       /\ hist[i].ok
       /\ hist[i].response = RespRejectThenSs
       /\ hist[i].executed = <<CmdSs>>
  /\ executed = <<CmdSs>>

C3_LoopExitConditions ==
  /\ \A i \in 1..Len(hist) :
       (hist[i].ok /\ ((hist[i].response.json /\ hist[i].response.done)
                        \/ hist[i].executed = <<>>))
         => (i = Len(hist) /\ agent_pc # "loop")
  /\ (/\ agent_pc \in {"loop", "returned"}
      /\ hist # <<>>
      /\ hist[Len(hist)].ok
      /\ ~(hist[Len(hist)].response.json /\ hist[Len(hist)].response.done)
      /\ hist[Len(hist)].executed # <<>>
      /\ Len(hist) < config.max_iterations)
       => agent_pc = "loop"
  /\ \A i \in 1..Len(hist) :
       /\ (hist[i].ok /\ hist[i].response = RespRejectThenSs) => hist[i].executed = <<CmdSs>>
       /\ (hist[i].ok /\ hist[i].response = RespChained) => hist[i].executed = <<CmdChained>>

\* below the cap, the loop went on after a response that was not done and
\* ended after a done response whose whitelisted command was executed
C3_ContinuedThenDone ==
  /\ agent_pc = "returned"
  /\ config.max_iterations = MaxIterations
  /\ Len(hist) = 2
  /\ Len(hist) < config.max_iterations
  /\ hist[1].ok /\ hist[1].response = RespKeepGoing
  /\ hist[2].ok /\ hist[2].response = RespRejectThenSs
  /\ hist[2].executed = <<CmdSs>>

\* C4 - for every response the executed commands are exactly its whitelisted
\* commands, stripped, in the order listed, the others skipped; actions_taken
\* is the sequence of executed commands over all iterations (the key is left
\* out when it is empty) and commands_executed is its length.
C4_ExecutedExactlyWhitelisted ==
  LET Expected(r) ==
        CASE r = RespRejectThenSs  -> <<CmdSs>>
          [] r = RespKeepGoing     -> <<CmdSs, CmdDockerStop>>
          [] r = RespOnlyRejected  -> <<>>
          [] r = RespFinding       -> <<>>
          [] r = RespPaddedFinding -> <<CmdWhoami, CmdSsUpper>>
          [] r = RespMarkdown      -> <<CmdWhoami>>
          [] r = RespChained       -> <<CmdChained>>
      RECURSIVE Flat(_)
      Flat(n) == IF n = 0 THEN <<>> ELSE Flat(n - 1) \o hist[n].executed
  IN /\ \A i \in 1..Len(hist) :
          hist[i].executed = IF hist[i].ok THEN Expected(hist[i].response) ELSE <<>>
     /\ executed = Flat(Len(hist))
     /\ actions_taken = executed
     /\ total_commands = Len(executed)
     /\ (agent_pc = "returned" /\ result.summary = "Agent completed")
          => /\ result.commands_executed = Len(executed)
             /\ result.has_actions_taken = (executed # <<>>)
             /\ result.actions_taken = executed

\* two responses handled, four commands executed in the order suggested
C4_TwoResponsesInOrder ==
  /\ agent_pc = "returned"
  /\ Len(hist) = 2
  /\ hist[1].response = RespKeepGoing
  /\ hist[2].response = RespPaddedFinding
  /\ result.has_actions_taken
  /\ result.actions_taken = <<CmdSs, CmdDockerStop, CmdWhoami, CmdSsUpper>>
  /\ result.commands_executed = 4

\* C5 (as stated) - agent gating: when llm_agent.enabled is not set, or no
\* API key is configured, run_agent_loop makes no model call, executes no
\* command, reads no threat records and returns iterations = 0 with no
\* actions_taken and no finding.
C5_GateOnAgentFlag ==
  (~config.llm_agent_enabled \/ ~config.api_key)
    => /\ llm_calls = 0
       /\ executed = <<>>
       /\ threat_reads = 0
       /\ agent_pc # "loop"
       /\ (agent_pc = "returned"
             => /\ result.iterations = 0
                /\ ~result.has_actions_taken
                /\ result.finding = NoFinding)

\* C5 (amended) - agent gating: when neither llm_agent.enabled nor
\* llm.enabled is set, or no API key is configured, run_agent_loop in either
\* mode makes no model call, executes no command, reads no threat records and
\* returns iterations = 0 with no actions_taken and no finding; nothing of
\* the loop is written to the activity sink.
C5_GateOnEitherFlag ==
  (~(config.llm_agent_enabled \/ config.llm_enabled) \/ ~config.api_key)
    => /\ llm_calls = 0
       /\ executed = <<>>
       /\ threat_reads = 0
       /\ agent_pc # "loop"
       /\ hist = <<>>
       /\ \A k \in 1..Len(activity) :
            activity[k].type \notin {"llm_call", "command_execution", "agent_iteration"}
       /\ (agent_pc = "returned"
             => /\ result.summary = "LLM agent disabled"
                /\ result.iterations = 0
                /\ result.commands_executed = 0
                /\ ~result.has_actions_taken
                /\ result.finding = NoFinding)

\* run_agent_loop was called with an API key and both flags off, and has
\* returned at the gate
C5_ReturnedAtGate ==
  /\ agent_pc = "returned"
  /\ mode = "scan"
  /\ ~config.llm_agent_enabled
  /\ ~config.llm_enabled
  /\ config.api_key
  /\ result.iterations = 0
  /\ threat_reads = 0

\* C6 - LLM error handling: a failed model call is the last thing the loop
\* does: an unsuccessful llm_call is in the activity sink, no call and no
\* command follows, run_agent_loop returns its usual result with the commands
\* of the earlier iterations; and whenever the processor is inside the agent
\* loop for an incident, that incident's audit record, policy decision,
\* responder actions and report are already done.
C6_LLMErrorHandling ==
  /\ \A i \in 1..Len(hist) :
       ~hist[i].ok =>
         /\ i = Len(hist)
         /\ hist[i].executed = <<>>
         /\ agent_pc # "loop"
         /\ \E k \in 1..Len(activity) : activity[k].type = "llm_call" /\ ~activity[k].ok
         /\ (agent_pc = "returned"
               => /\ result.summary = "Agent completed"
                  /\ result.iterations = i
                  /\ result.commands_executed = Len(executed)
                  /\ result.actions_taken = executed
                  /\ result.has_actions_taken = (executed # <<>>))
  /\ (pe_pc = "agent")
       => /\ caller = "incident"
          /\ incident # NoIncident
          /\ \E k \in 1..Len(audit) :
               audit[k].type = "incident" /\ audit[k].incident_id = incident.incident_id
          /\ \E k \in 1..Len(activity) :
               activity[k].type = "policy_decision" /\ activity[k].nums = <<incident.incident_id>>
          /\ allowed # <<>>
          /\ act_idx = Len(allowed) + 1
          /\ \E k \in 1..Len(pending_digest) : pending_digest[k] = incident.incident_id
          /\ (incident.severity \in config.immediate_severities
                => \E k \in 1..Len(notifications) :
                     /\ notifications[k].kind = "incident_alert"
                     /\ notifications[k].id = incident.incident_id)

\* in an incident's agent loop the second model call failed after a first
\* iteration that executed commands, and the loop returned them
C6_FailedAfterExecuting ==
  /\ agent_pc = "returned"
  /\ pe_pc = "agent"
  /\ caller = "incident"
  /\ Len(hist) = 2
  /\ hist[1].ok
  /\ hist[1].executed = <<CmdSs, CmdDockerStop>>
  /\ ~hist[2].ok
  /\ result.actions_taken = <<CmdSs, CmdDockerStop>>
  /\ result.iterations = 2

\* C7 - bootstrap suppression: a diff detector (ports, containers, admins)
\* called with an empty prior set returns no event, whatever the inventory
\* holds.
C7_BootstrapSuppression ==
  (check_pc = "done" /\ check_prior = {}) => check_out = NoEvent

\* a detector was called with an empty prior set and a non-empty inventory
C7_FirstObservationNonEmpty ==
  /\ check_pc = "done"
  /\ check_prior = {}
  /\ check_which = "ports"
  /\ check_inv.listening_ports = <<"22", "80">>
  /\ check_out = NoEvent

\* C8 - a diff detector called with a non-empty prior set returns one event
\* when current - prior (containers: running - prior) is non-empty, with
\* exactly those elements in its payload and the type and severity
\* new_listening_port P3 / new_container P3 / new_admin_user P2; it returns
\* no event when nothing is new; the prior set it was given is unchanged.
C8_DiffDetectorOutput ==
  /\ [](
      (check_pc = "done" /\ check_prior # {}) =>
        LET current ==
              IF check_which = "ports"
                THEN {check_inv.listening_ports[i] : i \in 1..Len(check_inv.listening_ports)}
              ELSE IF check_which = "users"
                THEN {check_inv.users_with_sudo[i] : i \in 1..Len(check_inv.users_with_sudo)}
              ELSE {check_inv.containers[i].id :
                      i \in {j \in 1..Len(check_inv.containers) :
                               check_inv.containers[j].status = "running"}}
            new == current \ check_prior
        IN IF new = {} THEN check_out = NoEvent
           ELSE /\ check_out # NoEvent
                /\ check_which = "ports" =>
                     /\ check_out.event_type = "new_listening_port"
                     /\ check_out.severity = "P3"
                     /\ check_out.raw.new_ports = new
                /\ check_which = "users" =>
                     /\ check_out.event_type = "new_admin_user"
                     /\ check_out.severity = "P2"
                     /\ check_out.raw.new_users = new
                /\ check_which = "containers" =>
                     /\ check_out.event_type = "new_container"
                     /\ check_out.severity = "P3"
                     /\ check_out.raw.new_ids = new
                     /\ \A k \in 1..Len(check_out.raw.names) : check_out.raw.names[k] \in new
     )
  /\ [][check_prior' = check_prior]_vars

\* the admin detector was called with prior {alice} and an inventory listing
\* alice and mallory, and returned the event naming mallory
C8_NewAdminMallory ==
  /\ check_pc = "done"
  /\ check_which = "users"
  /\ check_prior = {"alice"}
  /\ check_inv.users_with_sudo = <<"alice", "mallory">>
  /\ check_out # NoEvent
  /\ check_out.raw.new_users = {"mallory"}

\* C9 - in the running daemon a detector cycle compares the latest inventory
\* delivered through the queue with the set stored at the end of the previous
\* detector cycle: when that set is non-empty and the inventory holds a port,
\* sudo user or running container absent from it, the cycle emits the
\* new_listening_port / new_admin_user / new_container event.
C9_PriorIsPreviousCycle ==
  [][(det_cycles' = det_cycles + 1 /\ det_cycles >= 1) =>
       /\ (prev_ports # {} /\ PortSet(last_host_inv) \ prev_ports # {})
            => \E i \in 1..Len(det_events') : det_events'[i].event_type = "new_listening_port"
       /\ (prev_sudo_users # {} /\ SudoSet(last_host_inv) \ prev_sudo_users # {})
            => \E i \in 1..Len(det_events') : det_events'[i].event_type = "new_admin_user"
       /\ (prev_containers # {} /\ Available(last_docker_inv)
             /\ RunningIds(last_docker_inv) \ prev_containers # {})
            => \E i \in 1..Len(det_events') : det_events'[i].event_type = "new_container"
    ]_vars

\* C10 - snapshot happens-before: when a detector cycle starts, the detector
\* manager's snapshots are the inventories last enqueued by the collector
\* task, under every interleaving of the collector, detector and processor
\* tasks.
C10_SnapshotHappensBefore ==
  [][(det_cycles' = det_cycles + 1) =>
       /\ last_host_inv = last_enq_host
       /\ last_docker_inv = last_enq_docker
    ]_vars

\* C11 - maintenance-window exclusivity: when the present lies inside a
\* configured window whose start and end are ISO-8601 UTC instants
\* (start <= now <= end), allowed_actions returns exactly the one action
\* alert_only with reason maintenance_window, whatever the tier, the
\* severity and the event types.
C11_MaintenanceWindowExclusive ==
  (pol_pc = "done"
     /\ \E i \in 1..Len(pol_windows) :
          pol_windows[i].form = "utc" /\ WindowHolds(pol_windows[i], UtcNow))
    => pol_out = <<ActionSpec("alert_only", "maintenance_window", 0, 0)>>

\* C12 - outside every maintenance window the list is, in this order:
\* alert_only(always); stop_container (tier 1, 60 minutes) exactly when the
\* tier maximum is at least 1, the severity is P1 or P2 and an event of the
\* incident has type new_container; block_ip_temporary (tier 1, 30 minutes)
\* exactly when the same holds with auth_failures.  It is never empty.
C12_PolicyOutsideWindows ==
  (pol_pc = "done" /\ \A i \in 1..Len(pol_windows) : ~WindowHolds(pol_windows[i], UtcNow))
    => LET types == {pol_inc.events[i].event_type : i \in 1..Len(pol_inc.events)}
           contain == pol_tier >= 1 /\ pol_inc.severity \in {"P1", "P2"}
           stop == IF contain /\ "new_container" \in types
                     THEN <<[action |-> "stop_container", reason |-> "", tier |-> 1,
                             timeout_minutes |-> 60]>>
                     ELSE <<>>
           block == IF contain /\ "auth_failures" \in types
                      THEN <<[action |-> "block_ip_temporary", reason |-> "", tier |-> 1,
                              timeout_minutes |-> 30]>>
                      ELSE <<>>
       IN /\ pol_out = <<[action |-> "alert_only", reason |-> "always", tier |-> 0,
                          timeout_minutes |-> 0]>> \o stop \o block
          /\ pol_out # <<>>

\* a P2 incident with both event types at tier 1, with a window that ended
\* before the present: all three actions
C12_ThreeActions ==
  /\ pol_pc = "done" /\ Len(pol_out) = 3
  /\ pol_windows = <<Window(0, 0, "naive")>>
  /\ pol_tier = 1 /\ pol_inc.severity = "P2"

\* C13 - responder failures never propagate: whatever sink write fails
\* inside a handler, Responder.execute returns normally, so the pass of the
\* loop over the allowed actions in which the failure happens is followed by
\* the next action or by the reporter, and the processor records no error.
C13_ResponderNeverRaises ==
  [][(pe_pc = "respond" /\ n_faults' = n_faults + 1)
       => (pe_pc' \in {"respond", "report"} /\ pe_errors' = pe_errors)]_vars

C15_DetectorIsolation ==
  [][(det_cycles' = det_cycles + 1 /\ n_faults' = n_faults + 1)
       => /\ \A i \in 1..Len(det_produced') :
               \E j \in 1..Len(det_events') : det_events'[j] = det_produced'[i]
          /\ task_state'.detector = "running"]_vars

\* C16 - no runtime error terminates the daemon: whatever fails inside a
\* cycle, every task stays in its loop and Daemon.run does not return.
C16_NoTaskEnds ==
  \A t \in DOMAIN task_state : task_state[t] = "running"

\* C17 - inventory events are never promoted: the step that takes a
\* host_inventory or docker_inventory event off the queue only updates the
\* snapshots of its own family (host: inventory, ports, sudo users; docker:
\* inventory, containers), leaves the other family's fields unchanged, and
\* produces no incident, no audit or activity record, no policy decision,
\* no responder action, no notification and no agent run.
C17_InventoryNeverPromoted ==
  [][(event_queue # <<>> /\ event_queue' = Tail(event_queue)
        /\ Head(event_queue).event_type \in {"host_inventory", "docker_inventory"})
       => LET e == Head(event_queue) IN
          /\ pe_pc' = "get" /\ pe_pc = "get"
          /\ incident' = incident /\ n_incidents' = n_incidents
          /\ audit' = audit /\ activity' = activity
          /\ allowed' = allowed /\ act_idx' = act_idx
          /\ pending_digest' = pending_digest /\ notifications' = notifications
          /\ threats' = threats
          /\ agent_pc' = agent_pc /\ llm_calls' = llm_calls /\ executed' = executed
          /\ e.event_type = "host_inventory"
               => /\ last_host_inv' = e.raw
                  /\ last_ports' = {e.raw.listening_ports[i] :
                                      i \in 1..Len(e.raw.listening_ports)}
                  /\ last_sudo_users' = {e.raw.users_with_sudo[i] :
                                           i \in 1..Len(e.raw.users_with_sudo)}
                  /\ last_docker_inv' = last_docker_inv
                  /\ last_containers' = last_containers
          /\ e.event_type = "docker_inventory"
               => /\ last_docker_inv' = e.raw
                  /\ last_containers' = {e.raw.containers[i].id :
                                           i \in 1..Len(e.raw.containers)}
                  /\ last_host_inv' = last_host_inv
                  /\ last_ports' = last_ports
                  /\ last_sudo_users' = last_sudo_users]_vars

\* both inventories have been ingested, the host one last, and nothing
\* else has happened in the pipeline
C17_BothFamiliesIngested ==
  /\ last_host_inv # EmptyInv /\ last_containers = {"c1", "c2"}
  /\ last_ports = {"22", "80"}
  /\ event_queue = <<>> /\ n_incidents = 0 /\ audit = <<>> /\ pe_pc = "get"

\* C18 - drift first run: a check made with no in-memory baseline and no
\* baseline file records the digest of every readable critical file in
\* memory and in the baseline file and returns no event, whatever the files
\* contain; a check made when exactly one recorded file has another content
\* and nothing else differs returns exactly one config_drift event (P2) with
\* the path, the recorded digest as old_hash and the current one as new_hash.
C18_DriftFirstRun ==
  [][n_checks' = n_checks + 1
       => /\ (baseline_mem = EmptyBaseline /\ ~baseline_file.exists)
               => /\ drift_out' = <<>>
                  /\ baseline_file'.exists
                  /\ DOMAIN baseline_file'.data = {p \in DOMAIN fs : fs[p] \in Contents}
                  /\ \A p \in DOMAIN baseline_file'.data :
                        baseline_file'.data[p] = <<"sha256", fs[p]>>
                  /\ baseline_mem' = baseline_file'.data
          /\ \A p \in DOMAIN baseline_mem :
                (/\ fs[p] \in Contents
                 /\ baseline_mem[p] # <<"sha256", fs[p]>>
                 /\ \A q \in DOMAIN fs \ {p} :
                       IF q \in DOMAIN baseline_mem
                         THEN fs[q] \in Contents /\ baseline_mem[q] = <<"sha256", fs[q]>>
                         ELSE fs[q] \notin Contents)
                => drift_out' = <<[event_type |-> "config_drift", source |-> "drift",
                                   severity |-> "P2",
                                   raw |-> [path |-> p, old_hash |-> baseline_mem[p],
                                            new_hash |-> <<"sha256", fs[p]>>]]>>]_vars

\* the first check recorded both files, one was rewritten, and the second
\* check reported it
C18_FirstRunThenDrift ==
  /\ n_checks = 2
  /\ DOMAIN baseline_mem = {"/etc/passwd", "/etc/sudoers"}
  /\ baseline_file.exists /\ baseline_file.data = baseline_mem
  /\ Len(drift_out) = 1 /\ drift_out[1].event_type = "config_drift"
  /\ drift_out[1].raw.path = "/etc/sudoers"
  /\ drift_out[1].raw.old_hash = <<"sha256", "v1">>
  /\ drift_out[1].raw.new_hash = <<"sha256", "v2">>

\* C19 - drift classification: a check made when the baseline file has been
\* built, a baseline without files included, returns exactly one event for
\* each path whose state differs from the baseline (config_new_file P3,
\* config_drift P2, config_deleted P2) and none for an unchanged path.
C19_DriftClassification ==
  [][(n_checks' = n_checks + 1 /\ baseline_file.exists)
       => LET base == IF baseline_mem = EmptyBaseline THEN baseline_file.data ELSE baseline_mem
              cur  == {p \in DOMAIN fs : fs[p] \in Contents}
              expected ==
                {[event_type |-> "config_new_file", source |-> "drift", severity |-> "P3",
                  raw |-> [path |-> p, hash |-> <<"sha256", fs[p]>>]] : p \in cur \ DOMAIN base}
                \cup
                {[event_type |-> "config_drift", source |-> "drift", severity |-> "P2",
                  raw |-> [path |-> p, old_hash |-> base[p], new_hash |-> <<"sha256", fs[p]>>]] :
                    p \in {q \in cur \cap DOMAIN base : base[q] # <<"sha256", fs[q]>>}}
                \cup
                {[event_type |-> "config_deleted", source |-> "drift", severity |-> "P2",
                  raw |-> [path |-> p]] : p \in DOMAIN base \ cur}
          IN /\ Range(drift_out') = expected
             /\ Len(drift_out') = Cardinality(expected)]_vars

\* C20 - baseline immutability: while the baseline file exists no check
\* rewrites it, whatever it contains, and no check changes the in-memory
\* baseline other than by loading that file into an empty one.
C20_BaselineImmutable ==
  [][(n_checks' = n_checks + 1 /\ baseline_file.exists)
       => /\ baseline_file' = baseline_file
          /\ \/ baseline_mem' = baseline_mem
             \/ baseline_mem = EmptyBaseline /\ baseline_mem' = baseline_file.data]_vars

\* C21 - drift round-trip: a check made when the baseline file does not
\* exist (deleted under a running monitor, or absent for a new one) returns
\* no events and rebuilds and persists the baseline from the current files;
\* a check made when the files are as the baseline just built records them
\* returns no events.
C21_DriftRoundTrip ==
  [][n_checks' = n_checks + 1
       => LET current == [p \in {q \in DOMAIN fs : fs[q] \in Contents} |-> <<"sha256", fs[p]>>]
          IN /\ ~baseline_file.exists
                  => /\ drift_out' = <<>>
                     /\ baseline_file' = [exists |-> TRUE, data |-> current]
                     /\ baseline_mem' = current
             /\ (baseline_file.exists /\ baseline_file.data = current
                    /\ baseline_mem = current)
                  => drift_out' = <<>>]_vars

\* C22 (as stated) - whenever the resolve loop of an incident completes,
\* the threat stored for it is marked resolved with the commands the loop
\* executed, for every way the loop can complete.
C22_ResolvedOnEveryCompletion ==
  [][(pe_pc = "agent" /\ pe_pc' = "get")
       => /\ threats'[threat_id].resolved
          /\ threats'[threat_id].resolution_actions = executed]_vars

\* C22 (amended) - resolve-mode threat lifecycle: every model call of an
\* incident's resolve loop is made with the incident's threat record
\* already stored and unresolved; when the loop returns, that record is
\* marked resolved with the executed commands if at least one command was
\* executed and is left as stored otherwise, and no record is added; the
\* gate stores a threat and starts the loop only for P1/P2 with
\* llm_agent.enabled and run_on_incident.
C22_ThreatLifecycle ==
  [][/\ (caller = "incident" /\ llm_calls' = llm_calls + 1)
          => /\ threat_id \in 1..Len(threats)
             /\ threats[threat_id] = [incident_id |-> incident.incident_id,
                                       resolution_actions |-> <<>>, resolved |-> FALSE]
     /\ (pe_pc = "agent" /\ pe_pc' = "get")
          => /\ Len(threats') = Len(threats)
             /\ \A k \in 1..Len(threats) : k # threat_id => threats'[k] = threats[k]
             /\ IF executed # <<>>
                  THEN /\ threats'[threat_id].resolved
                       /\ threats'[threat_id].resolution_actions = executed
                       /\ threats'[threat_id].incident_id = threats[threat_id].incident_id
                  ELSE threats'[threat_id] = threats[threat_id]
     /\ (pe_pc = "gate" /\ pe_pc' # "gate")
          => IF /\ incident.severity \in {"P1", "P2"}
                /\ config.llm_agent_enabled /\ config.run_on_incident
               THEN /\ pe_pc' = "agent"
                    /\ threats' = Append(threats, [incident_id |-> incident.incident_id,
                                                    resolution_actions |-> <<>>,
                                                    resolved |-> FALSE])
                    /\ llm_calls' = 0
               ELSE /\ pe_pc' = "get" /\ threats' = threats
                    /\ agent_pc' = agent_pc /\ llm_calls' = llm_calls]_vars

\* a resolve loop that executed a command has returned and its threat is
\* marked resolved with that command
C22_ThreatResolved ==
  /\ pe_pc = "get" /\ Len(threats) = 1
  /\ threats[1].resolved /\ threats[1].resolution_actions # <<>>
  /\ threats[1].resolution_actions = executed

C24_ShutdownOrdering ==
  /\ [](\A s \in SinkNames, t \in TaskNames :
          (sh_pc # "down" /\ ~sinks[s].open /\ RecordTypes(t, s) # {})
            => cl_tasks[t] # "running")
  /\ [](sh_pc \in {"stopped", "escaped"}
          => /\ \A t \in TaskNames : cl_tasks[t] # "running"
             /\ ~reporter_up
             /\ \A s \in SinkNames : ~sinks[s].open)
  /\ [][/\ (reporter_up /\ ~reporter_up')
              => \A t \in TaskNames : cl_tasks[t] = "cancelled"
        /\ (sinks.activity.open /\ ~sinks'.activity.open)
              => ~reporter_up /\ sinks.audit.open
        /\ (sinks.audit.open /\ ~sinks'.audit.open)
              => ~reporter_up /\ ~sinks.activity.open]_vars

\* C25 - the sinks are append-only: whatever the daemon does, starts, stops
\* and restarts included, each log file only grows, by one whole line per
\* record, and every line was written and flushed with the sink's lock held.
C25_SinkAppendOnly ==
  /\ [](\A s \in SinkNames :
          /\ sinks[s].buffer = <<>> /\ sinks[s].lock = "free"
          /\ \A i \in 1..Len(sinks[s].file) : sinks[s].file[i].locked)
  /\ [][\A s \in SinkNames :
          /\ Len(sinks'[s].file) >= Len(sinks[s].file)
          /\ Len(sinks'[s].file) <= Len(sinks[s].file) + 1
          /\ SubSeq(sinks'[s].file, 1, Len(sinks[s].file)) = sinks[s].file
          /\ Len(sinks'[s].file) > Len(sinks[s].file) => sinks[s].open /\ n_writes' = n_writes + 1
          /\ n_writes' # n_writes
               => Len(sinks'.audit.file) + Len(sinks'.activity.file)
                    = Len(sinks.audit.file) + Len(sinks.activity.file) + 1]_vars

\* the audit log holds a line of the first process and, after it, a line
\* of the second
C25_LinesOfTwoRuns ==
  /\ n_starts = 2 /\ Len(sinks.audit.file) = 2
  /\ sinks.audit.file[1].run = 1 /\ sinks.audit.file[2].run = 2

\* C26 - event_type_matches(t) returns true exactly when at least one event
\* of the incident has event_type t.
C26_EventTypeMatches ==
  (pf_call.fn = "event_type_matches" /\ pf_ret # <<>>)
    => pf_ret[1] = (\E i \in DOMAIN pf_call.inc.events :
                      pf_call.inc.events[i].event_type = pf_call.typ)

\* the type asked for is that of the second event only
C26_MatchOnSecondEvent ==
  /\ pf_call.fn = "event_type_matches" /\ pf_ret = <<TRUE>>
  /\ Len(pf_call.inc.events) = 2
  /\ pf_call.inc.events[1].event_type # pf_call.typ

\* C27 - severity_from_str is total: P1, P2, P3 and P4 give the severity of
\* that name, every other string gives P4, and the call never raises.
C27_SeverityFromStrTotal ==
  (pf_call.fn = "severity_from_str" /\ pf_ret # <<>>)
    => /\ pf_ret[1] \in {"P1", "P2", "P3", "P4"}
       /\ pf_call.s \in {"P1", "P2", "P3", "P4"} => pf_ret[1] = pf_call.s
       /\ pf_call.s \notin {"P1", "P2", "P3", "P4"} => pf_ret[1] = "P4"

\* a string that is no severity name came back as P4
C27_UnknownGivesP4 ==
  pf_call.fn = "severity_from_str" /\ pf_call.s = "p1" /\ pf_ret = <<"P4">>

\* C28 - classification shape: every classified event that is no inventory
\* event yields one incident holding exactly that event, with the event's
\* severity, title = the first 200 characters of the summary, narrative =
\* the summary and at least one recommended action (the default runbook
\* advice for config_new_file and config_deleted); an inventory event
\* yields none, and no incident holds more than its own event.
C28_ClassificationShape ==
  pf_call.fn = "correlate_and_classify"
    => \A i \in 1..Len(pf_ret) :
         LET e == pf_call.events[i] IN
         IF e.event_type \in {"host_inventory", "docker_inventory"}
           THEN pf_ret[i] = <<>>
           ELSE /\ Len(pf_ret[i]) = 1
                /\ Len(pf_ret[i][1].events) = 1
                /\ pf_ret[i][1].events[1].event_type = e.event_type
                /\ pf_ret[i][1].events[1].source = e.source
                /\ pf_ret[i][1].events[1].summary = e.summary
                /\ pf_ret[i][1].events[1].severity = e.severity
                /\ pf_ret[i][1].severity = e.severity
                /\ Len(pf_ret[i][1].title) <= 200
                /\ \A k \in 1..Len(e.summary) :
                      k <= 200 => /\ k <= Len(pf_ret[i][1].title)
                                  /\ pf_ret[i][1].title[k] = e.summary[k]
                /\ Len(pf_ret[i][1].title) <= Len(e.summary)
                /\ pf_ret[i][1].narrative = e.summary
                /\ Len(pf_ret[i][1].recommended_actions) >= 1
                /\ e.event_type \in {"config_new_file", "config_deleted"}
                     => pf_ret[i][1].recommended_actions
                          = <<"Review evidence and take action as per runbook.">>

\* a config_deleted event with a summary of 201 characters was classified
\* after another event: its title is cut, its advice is the default
C28_LongSummaryDefaultAdvice ==
  /\ pf_call.fn = "correlate_and_classify" /\ Len(pf_ret) = 2
  /\ pf_call.events[2].event_type = "config_deleted"
  /\ Len(pf_call.events[2].summary) = 201
  /\ pf_call.events[1].event_type = "auth_failures"
  /\ Len(pf_ret[2][1].title) = 200
  /\ Len(pf_ret[1]) = 1

\* C29 - responder effects: execute adds to incident.actions_taken only
\* "Stopped container <id>", once per container it stopped, having tried at
\* most 5 of the ids of raw.new_ids and every one of them whether or not an
\* earlier stop failed; alert_only adds and writes nothing;
\* block_ip_temporary adds nothing to the incident and writes exactly one
\* block_ip_temporary_skipped audit action with the requested timeout.
C29_ResponderEffects ==
  (pf_call.fn = "Responder.execute" /\ pf_ret # <<>>)
    => LET spec == pf_call.spec
           inc == pf_call.inc
           eff == pf_ret[1].eff
           tried == {eff.activity[i].cmd[2] : i \in 1..Len(eff.activity)}
       IN IF spec.action = "stop_container" /\ inc.events[1].event_type = "new_container"
            THEN LET ids == inc.events[1].raw.new_ids IN
                 /\ tried \subseteq ids
                 /\ Cardinality(tried) = (IF Cardinality(ids) < 5 THEN Cardinality(ids) ELSE 5)
                 /\ Len(eff.activity) = Cardinality(tried)
                 /\ \A i \in 1..Len(eff.taken) :
                       /\ eff.taken[i][1] = "Stopped container"
                       /\ eff.taken[i][2] \in tried /\ pf_call.oks[eff.taken[i][2]]
                       /\ \A j \in 1..Len(eff.taken) : eff.taken[j] = eff.taken[i] => j = i
                 /\ \A c \in tried : pf_call.oks[c] => \E i \in 1..Len(eff.taken) : eff.taken[i][2] = c
                 /\ Len(eff.audit) = Len(eff.taken)
                 /\ \A i \in 1..Len(eff.audit) : eff.audit[i].action = "stop_container"
          ELSE IF spec.action = "block_ip_temporary" /\ inc.events[1].event_type = "auth_failures"
            THEN /\ eff.taken = <<>> /\ eff.activity = <<>>
                 /\ Len(eff.audit) = 1
                 /\ eff.audit[1].action = "block_ip_temporary_skipped"
                 /\ eff.audit[1].incident_id = inc.incident_id
                 /\ Len(pf_ret[1].details) = 1
                 /\ pf_ret[1].details[1].timeout_minutes
                      = (IF "timeout_minutes" \in DOMAIN spec THEN spec.timeout_minutes ELSE 30)
          ELSE eff.taken = <<>> /\ eff.audit = <<>> /\ eff.activity = <<>>

\* six new containers: five were tried, a stop failed and a later one
\* succeeded, four entries were appended
C29_FiveTriedOneFailed ==
  /\ pf_call.fn = "Responder.execute" /\ pf_ret # <<>>
  /\ pf_call.spec.action = "stop_container"
  /\ pf_call.inc.events[1].event_type = "new_container"
  /\ Cardinality(pf_call.inc.events[1].raw.new_ids) = 6
  /\ Len(pf_ret[1].eff.activity) = 5
  /\ Len(pf_ret[1].eff.taken) = 4
  /\ \E i \in 1..4 : ~pf_ret[1].eff.activity[i].ok /\ pf_ret[1].eff.activity[i + 1].ok

\* C30 - report_incident appends exactly one digest entry for its incident
\* on every call, whatever the severity, and calls the immediate
\* notification exactly when the severity is in immediate_severities
\* (P1 and P2 when the key is absent); the entry is there also when the
\* send failed.
C30_DigestAlwaysAlertIffImmediate ==
  pf_call.fn = "report_incident"
    => \A k \in 1..Len(pf_ret) :
         LET before == IF k = 1 THEN [pending_digest |-> <<>>, alerts |-> <<>>, delivered |-> <<>>]
                                ELSE pf_ret[k - 1]
             imm == IF "immediate_severities" \in DOMAIN pf_call.cfg
                      THEN pf_call.cfg.immediate_severities ELSE {"P1", "P2"}
         IN /\ pf_ret[k].pending_digest = Append(before.pending_digest, k)
            /\ pf_ret[k].alerts = IF pf_call.sevs[k] \in imm THEN Append(before.alerts, k)
                                                            ELSE before.alerts
            /\ pf_ret[k].delivered = IF pf_call.sevs[k] \in imm /\ pf_call.oks[k]
                                       THEN Append(before.delivered, k) ELSE before.delivered

\* default list: a P3 incident and then a P1 incident whose send failed are
\* both in the digest, one alert was attempted, none went out
C30_FailedSendStillInDigest ==
  /\ pf_call.fn = "report_incident" /\ Len(pf_ret) = 2
  /\ "immediate_severities" \notin DOMAIN pf_call.cfg
  /\ pf_call.sevs = <<"P3", "P1">> /\ ~pf_call.oks[2]
  /\ pf_ret[2].pending_digest = <<1, 2>>
  /\ pf_ret[2].alerts = <<2>> /\ pf_ret[2].delivered = <<>>

\* C31 - digest timing as stated: the digest is flushed only at a check at
\* which the UTC clock reads the configured hour and minute, the check after
\* a matching one comes an hour and a minute later, and no two flushes fall
\* on the same day.
C31_FlushAtConfiguredMinute ==
  /\ [][(dg_pc = "sleep60" /\ dg_pc' = "send")
         => /\ Hour(dg_now') = Get(dg_cfg, "hour_utc", 8)
            /\ Minute(dg_now') = Get(dg_cfg, "minute", 0)]_vars
  /\ [](\A i, j \in 1..Len(dg_sent) : i # j => Day(dg_sent[i].at) # Day(dg_sent[j].at))

\* C31 amended - the digest is flushed only at a check at which the UTC hour
\* is the configured hour and the minute is at or past the configured
\* minute; a check sees the clock one minute after the one before, or an
\* hour and a minute after a matching one; no two flushes fall on the same
\* day.
C31_FlushWithinConfiguredHour ==
  /\ [][/\ (dg_pc = "sleep60" /\ dg_pc' = "send")
              => /\ Hour(dg_now') = Get(dg_cfg, "hour_utc", 8)
                 /\ Minute(dg_now') >= Get(dg_cfg, "minute", 0)
                 /\ pending_digest # <<>> /\ pending_digest' = <<>>
        /\ (dg_pc = "sleep60" /\ dg_pc' = "sleep60" /\ dg_now' # dg_now)
              => /\ dg_now' = dg_now + 1
                 /\ ~(/\ Hour(dg_now') = Get(dg_cfg, "hour_utc", 8)
                      /\ Minute(dg_now') >= Get(dg_cfg, "minute", 0))
                 /\ pending_digest' = pending_digest
        /\ (dg_pc = "sleep3600" /\ dg_pc' = "sleep60")
              => dg_now' = dg_now + 60 /\ Hour(dg_now') # Hour(dg_now)]_vars
  /\ [](\A i, j \in 1..Len(dg_sent) : i # j => Day(dg_sent[i].at) # Day(dg_sent[j].at))

\* configured for 08:30 and started at 08:45: flushed at 08:46 of day 0 and
\* again on day 1
C31_LateFlushThenNextDay ==
  /\ Get(dg_cfg, "minute", 0) = 30
  /\ Len(dg_sent) = 2
  /\ dg_sent[1].at = 8 * 60 + 46
  /\ Day(dg_sent[2].at) = 1 /\ Minute(dg_sent[2].at) = 30

RECURSIVE SentIncidents(_)
\* the incidents of the flushes so far, in the order they were passed
SentIncidents(sent) ==
  IF sent = <<>> THEN <<>> ELSE Head(sent).incidents \o SentIncidents(Tail(sent))

\* C40 - digest hand-off is exactly-once: under every interleaving of
\* report_incident with the digest task, the incidents passed to
\* send_daily_digest so far, those of the flush being sent and those still
\* pending are together the reported incidents, each once and in order; a
\* flush takes the whole pending list and leaves it empty in the same step.
C40_DigestExactlyOnce ==
  /\ [](SentIncidents(dg_sent) \o dg_copy \o pending_digest
          = [i \in 1..n_reported |-> i])
  /\ [][(dg_pc = "sleep60" /\ dg_pc' = "send")
         => dg_copy' = pending_digest /\ pending_digest' = <<>>]_vars

\* an incident reported while the first digest was being sent went out
\* with the next day's flush
C40_ReportedDuringSend ==
  /\ Len(dg_sent) = 2
  /\ dg_sent[1].incidents = <<1>> /\ dg_sent[2].incidents = <<2>>
  /\ dg_sent[2].at > dg_sent[1].at
  /\ pending_digest = <<>>

\* C32: independent collector timers. For every configured pair of
\* intervals, two consecutive host collections are host_interval_sec apart
\* and two consecutive docker collections are docker_interval_sec apart.
C32_IndependentTimers ==
  \A k \in {"host", "docker"} :
    \A i \in 1..(Len(co_runs[k]) - 1) :
      co_runs[k][i + 1] - co_runs[k][i] = co_ival[k]

\* C33: threat registry updates. store_threat without resolution actions
\* writes a record with empty resolution_actions and null resolved_at under
\* the threat_id it returns, and touches no other file; mark_resolved on an
\* existing record sets resolution_actions and resolved_at and leaves the
\* record's other fields and the other files as they were; mark_resolved on
\* an unknown threat_id leaves the directory as it was and creates no file.
C33_RegistryUpdates ==
  LET before == tr_call.before.files
      after  == tr_dir.files
      Kept   == {"threat_id", "title", "description", "severity", "evidence", "detected_at"}
  IN
  /\ (tr_call.fn = "store_threat"
      /\ tr_call.resolution_actions \in {None, Given(<<>>)})
     => /\ tr_ret # None /\ tr_ret[1] \in DOMAIN after
        /\ after[tr_ret[1]].threat_id = tr_ret[1]
        /\ after[tr_ret[1]].resolution_actions = <<>>
        /\ after[tr_ret[1]].resolved_at = None
        /\ after[tr_ret[1]].title = tr_call.facts.title
        /\ DOMAIN after = DOMAIN before \cup {tr_ret[1]}
        /\ \A n \in DOMAIN before \ {tr_ret[1]} : after[n] = before[n]
  /\ (tr_call.fn = "mark_resolved" /\ tr_call.threat_id \in DOMAIN before)
     => /\ DOMAIN after = DOMAIN before
        /\ after[tr_call.threat_id].resolution_actions = tr_call.actions_taken
        /\ after[tr_call.threat_id].resolved_at = Given(tr_call.now)
        /\ \A k \in Kept : after[tr_call.threat_id][k] = before[tr_call.threat_id][k]
        /\ \A n \in DOMAIN before \ {tr_call.threat_id} : after[n] = before[n]
  /\ (tr_call.fn = "mark_resolved" /\ tr_call.threat_id \notin DOMAIN before)
     => tr_dir = tr_call.before

\* a threat stored unresolved at time 1 was marked resolved at time 2
C33_StoredThenResolved ==
  /\ tr_call.fn = "mark_resolved"
  /\ tr_call.threat_id \in DOMAIN tr_call.before.files
  /\ tr_call.before.files[tr_call.threat_id].resolved_at = None
  /\ tr_dir.files[tr_call.threat_id].resolved_at = Given(2)
  /\ tr_dir.files[tr_call.threat_id].detected_at = 1
  /\ tr_dir.files[tr_call.threat_id].resolution_actions # <<>>

\* C34: whitelisted commands are executed exec-style. For every command the
\* agent executed, the only program started is the one the command line
\* names first; text after it is never run as a further command.
C34_ExecStyleNoShell ==
  \A i \in 1..Len(executed) :
    LLMAgent_execute_command(executed[i]) = <<FirstWord(executed[i])>>

C35_ResolveRanTheSame ==
  /\ mode = "resolve" /\ agent_pc = "returned"
  /\ hist # <<>> /\ hist[1].response = RespKeepGoing
  /\ executed = <<CmdSs, CmdDockerStop>>

\* C36: serial incident handling. The event processor takes an event from
\* the queue only when no pipeline is in hand and no resolve loop is running;
\* a resolve loop runs only inside the pipeline of the incident in hand; while
\* a pipeline is in hand the queue only grows at its end and the detector
\* manager's snapshots stay as they are.
C36_SerialHandling ==
  /\ [](agent_pc \in {"loop", "returned"} /\ caller = "incident"
          => pe_pc = "agent" /\ incident # NoIncident)
  /\ [][Len(event_queue') < Len(event_queue)
          => /\ pe_pc = "get" /\ incident = NoIncident
             /\ ~(caller = "incident" /\ agent_pc \in {"loop", "returned"})
             /\ event_queue' = Tail(event_queue)]_vars
  /\ [][pe_pc # "get"
          => /\ Len(event_queue') >= Len(event_queue)
             /\ SubSeq(event_queue', 1, Len(event_queue)) = event_queue
             /\ UNCHANGED mgrVars]_vars

\* an inventory event and a further event wait in the queue while the resolve
\* loop of a P2 incident is running
C36_QueuedBehindResolveLoop ==
  /\ pe_pc = "agent" /\ agent_pc = "loop" /\ caller = "incident"
  /\ incident.severity = "P2"
  /\ hist # <<>>
  /\ event_queue # <<>>
  /\ \E i \in 1..Len(event_queue) : IsInventory(event_queue[i])
  /\ last_host_inv = EmptyInv

\* C37: every incident made of a new_container event has severity P3, so for
\* every action_tier_max the policy engine returns no stop_container for it
\* and the responder stops no container.
C37_NewContainerNeverStopped ==
  (pf_call.fn = "new_container_pipeline" /\ pf_ret # <<>> /\ pf_ret[1].event # NoEvent)
    => /\ pf_ret[1].event.event_type = "new_container"
       /\ event_type_matches(pf_ret[1].incident, "new_container")
       /\ pf_ret[1].incident.severity = "P3"
       /\ \A i \in 1..Len(pf_ret[1].allowed) : pf_ret[1].allowed[i].action = "alert_only"
       /\ Len(pf_ret[1].allowed) = 1
       /\ pf_ret[1].stopped = {}

\* container c2 was new and running, the tier was the highest: alert_only
C37_NewContainerAlertOnly ==
  /\ pf_call.fn = "new_container_pipeline" /\ pf_ret # <<>>
  /\ pf_call.tier = 3 /\ ~pf_call.window
  /\ pf_ret[1].event # NoEvent
  /\ pf_ret[1].event.raw.new_ids = {"c2"}
  /\ pf_ret[1].allowed = <<ActionSpec("alert_only", "always", 0, 0)>>

C39_FindingCarryOver ==
  LET Carried(i) == /\ hist[i].ok
                    /\ hist[i].response.json
                    /\ hist[i].response.vulnerability_found
                    /\ hist[i].response.finding # NoFinding
      Carriers == {i \in 1..Len(hist) : Carried(i)}
      latest == CHOOSE i \in Carriers : \A j \in Carriers : j <= i
  IN (agent_pc = "returned" /\ result.summary = "Agent completed")
       => result.finding = IF Carriers = {} THEN NoFinding
                           ELSE hist[latest].response.finding

====
